---- MODULE Spec2Model ----
(***************************************************************************)
(* A model of YamlParser::parseStream (BasicYamlParser.hpp): the           *)
(* indentation stack machine, the block scalar extractor, the flow         *)
(* collection parser and the byte cursor of the input stream.              *)
(*                                                                         *)
(* Text is a sequence of one-character strings.  Indices are 1-based, so   *)
(* the C++ position p is the index p + 1 and npos is 0.                     *)
(* A pointer into the tree is the path from the root to the node.          *)
(***************************************************************************)
EXTENDS Integers, Sequences, FiniteSets, TLC

VARIABLES input, stream, root, stack, lastScalarNode, linecount, status, err,
          result, query

vars == <<input, stream, root, stack, lastScalarNode, linecount, status, err,
          result, query>>

(***************************************************************************)
(* Bounds of the model.                                                    *)
(***************************************************************************)
MaxLines == 3

(***************************************************************************)
(* Small arithmetic helpers.                                               *)
(***************************************************************************)
\* The one element of a set with one element.  A value that is used more
\* than once is bound by a set constructor over {value}.
One(S) == CHOOSE x \in S : TRUE

SetMin(S) == One({CHOOSE x \in T : \A y \in T : x <= y : T \in {S}})
SetMax(S) == One({CHOOSE x \in T : \A y \in T : y <= x : T \in {S}})

(***************************************************************************)
(* std::string primitives.                                                 *)
(***************************************************************************)
\* s.find(c): index of the first c in s, 0 when there is none.
find(s, c) ==
    One(UNION {{IF hits = {} THEN 0 ELSE SetMin(hits) :
                   hits \in {{i \in 1..Len(t) : t[i] = c}}} : t \in {s}})

\* s.find(": ") != npos
containsColonSpace(s) ==
    \E i \in 1..(Len(s) - 1) : s[i] = ":" /\ s[i + 1] = " "

\* s.substr(p) for the C++ position p (number of characters dropped).
substr(s, p) == One({SubSeq(t, p + 1, Len(t)) : t \in {s}})

\* line.resize(commentPos) when a '#' is found.
stripComment(line) ==
    One(UNION {{IF commentPos # 0 THEN SubSeq(l, 1, commentPos - 1) ELSE l :
                   commentPos \in {find(l, "#")}} : l \in {line}})

trim(str) ==
    One(UNION {{IF keep = {} THEN <<>> ELSE SubSeq(s, SetMin(keep), SetMax(keep)) :
                   keep \in {{i \in 1..Len(s) : s[i] \notin {" ", "\t"}}}} :
               s \in {str}})

rtrim(str) ==
    One(UNION {{IF keep = {} THEN <<>> ELSE SubSeq(s, 1, SetMax(keep)) :
                   keep \in {{i \in 1..Len(s) : s[i] \notin {" ", "\t"}}}} :
               s \in {str}})

\* getIndent without the tab branch: a tab ends the indentation like any
\* other character.
getIndent_TabAsText(line) ==
    LET other == {i \in 1..Len(line) : line[i] # " "}
        first == IF other = {} THEN Len(line) + 1 ELSE SetMin(other)
    IN  [indent |-> first - 1, tab |-> FALSE]

\* getIndent: the number of leading spaces; tab is TRUE when the first
\* character after them is a tab (the code throws with col = indent + 1).
getIndent(line) ==
    One(UNION {{[indent |-> first - 1,
                 tab    |-> first <= Len(l) /\ l[first] = "\t"] :
                   first \in {IF \A i \in 1..Len(l) : l[i] = " " THEN Len(l) + 1
                              ELSE SetMin({i \in 1..Len(l) : l[i] # " "})}} :
               l \in {line}})

\* unescape with the n and t cases missing.
unescapeChar_Verbatim(c) == c

unescapeChar(c) ==
    CASE c = "n" -> "\n"
      [] c = "t" -> "\t"
      [] OTHER   -> c

RECURSIVE unescapeFrom(_, _)
unescapeFrom(s, i) ==
    IF i > Len(s) THEN <<>>
    ELSE IF s[i] = "\\" /\ i + 1 <= Len(s)
         THEN <<unescapeChar(s[i + 1])>> \o unescapeFrom(s, i + 2)
         ELSE <<s[i]>> \o unescapeFrom(s, i + 1)

unescape(s) == unescapeFrom(s, 1)

\* (val[0] == '"' || val[0] == '\'') && val.size() > 1 && val.back() == val[0]
isQuoted(val) ==
    /\ Len(val) > 1
    /\ val[1] \in {"\"", "'"}
    /\ val[Len(val)] = val[1]

\* unescape(val.substr(1, val.size() - 2))
dequote(val) == unescape(SubSeq(val, 2, Len(val) - 1))

\* The pieces std::getline(iss, item, delim) yields until it fails: a final
\* empty piece is not produced.
RECURSIVE splitOn(_, _)
splitOn(s, delim) ==
    IF s = <<>> THEN <<>>
    ELSE LET i == find(s, delim)
         IN  IF i = 0 THEN <<s>>
             ELSE <<SubSeq(s, 1, i - 1)>> \o splitOn(SubSeq(s, i + 1, Len(s)), delim)

(***************************************************************************)
(* YamlNode and YamlError.                                                 *)
(***************************************************************************)
EmptyMap == <<>>

YamlNode(t) ==
    [type |-> t, style |-> "Plain", scalarValue |-> <<>>,
     sequence |-> <<>>, mapping |-> EmptyMap]

ScalarNode(text) == [YamlNode("Scalar") EXCEPT !.scalarValue = text]

\* m[key] = v of a std::map
mapPut(m, key, v) ==
    One({[k \in (DOMAIN old) \cup {new} |-> IF k = new THEN node ELSE old[k]] :
            old \in {m}, new \in {key}, node \in {v}})

NoError == [kind |-> "none", line |-> -1, col |-> -1]

YamlError(kind, ln, cl) == [kind |-> kind, line |-> ln, col |-> cl]

(***************************************************************************)
(* Pointers into the tree: a path of mapping keys and sequence indices.    *)
(***************************************************************************)
KeyStep(key) == [k |-> "key", key |-> key, idx |-> 0]
IdxStep(i) == [k |-> "idx", key |-> <<>>, idx |-> i]

NullPtr == [isNull |-> TRUE, path |-> <<>>]
Ptr(path) == [isNull |-> FALSE, path |-> path]

RECURSIVE NodeAt(_, _)
NodeAt(n, path) ==
    One({IF p = <<>> THEN n
         ELSE IF Head(p).k = "key"
              THEN NodeAt(n.mapping[Head(p).key], Tail(p))
              ELSE NodeAt(n.sequence[Head(p).idx], Tail(p)) : p \in {path}})

RECURSIVE SetAt(_, _, _)
SetAt(n, path, v) ==
    One({IF p = <<>> THEN v
         ELSE IF Head(p).k = "key"
              THEN [m EXCEPT !.mapping =
                       mapPut(@, Head(p).key,
                              SetAt(m.mapping[Head(p).key], Tail(p), v))]
              ELSE [m EXCEPT !.sequence[Head(p).idx] =
                       SetAt(m.sequence[Head(p).idx], Tail(p), v)] :
            m \in {n}, p \in {path}})

(***************************************************************************)
(* The input stream: text, read position and the eofbit/failbit flags.     *)
(***************************************************************************)
StreamAt(p) == [pos |-> p, eof |-> FALSE, fail |-> FALSE]

\* std::getline(input, line): ok is the truth value of the returned stream.
getline(st) ==
    One(UNION {{
        IF s.eof \/ s.fail
        THEN [ok |-> FALSE, line |-> <<>>, st |-> [s EXCEPT !.fail = TRUE]]
        ELSE IF nl # {}
             THEN [ok |-> TRUE,
                   line |-> SubSeq(input, s.pos + 1, SetMin(nl) - 1),
                   st |-> [s EXCEPT !.pos = SetMin(nl)]]
             ELSE IF s.pos = Len(input)
                  THEN [ok |-> FALSE, line |-> <<>>,
                        st |-> [s EXCEPT !.eof = TRUE, !.fail = TRUE]]
                  ELSE [ok |-> TRUE,
                        line |-> SubSeq(input, s.pos + 1, Len(input)),
                        st |-> [s EXCEPT !.pos = Len(input), !.eof = TRUE]] :
            nl \in {{i \in (s.pos + 1)..Len(input) : input[i] = "\n"}}} :
        s \in {st}})

\* input.seekg(target): clears eofbit, then positions a stream that has
\* not failed; a target outside the text sets failbit.
seekgTo(st, target) ==
    IF st.fail THEN [st EXCEPT !.eof = FALSE]
    ELSE IF target < 0 \/ target > Len(input)
         THEN [st EXCEPT !.eof = FALSE, !.fail = TRUE]
         ELSE [st EXCEPT !.eof = FALSE, !.pos = target]

\* The rewind left out: the stream stays after the line that was read.
seekgCur_Stay(st, off) == st

\* input.seekg(off, std::ios::cur)
seekgCur(st, off) == seekgTo(st, st.pos + off)

\* The position saved before the peek taken as the start of the text.
tellg_Start(st) == [pos |-> 0, st |-> st]

\* input.tellg(): -1, with failbit set, on a stream that is not good.
tellg(st) ==
    IF st.eof \/ st.fail
    THEN [pos |-> -1, st |-> [st EXCEPT !.fail = TRUE]]
    ELSE [pos |-> st.pos, st |-> st]

(***************************************************************************)
(* Flow Collection Parser.                                                 *)
(***************************************************************************)
\* The item stored as it is written, quotes included.
flowScalar_Raw(val) == ScalarNode(val)

\* One item of a flow sequence: dequoted when wrapped in matching quotes.
flowScalar(val) == ScalarNode(IF isQuoted(val) THEN dequote(val) ELSE val)

RECURSIVE flowSequenceItems(_)
flowSequenceItems(items) ==
    IF items = <<>> THEN <<>>
    ELSE LET val == trim(Head(items))
         IN  (IF val # <<>> THEN <<flowScalar(val)>> ELSE <<>>)
                 \o flowSequenceItems(Tail(items))

parseFlowSequence(flowContent) ==
    [YamlNode("Sequence") EXCEPT
        !.sequence = flowSequenceItems(splitOn(flowContent, ","))]

\* The loop of parseFlowMapping over the comma-separated pairs; it stops
\* at the first pair that throws.
RECURSIVE flowMappingPairs(_, _, _)
flowMappingPairs(pairs, map, lineNum) ==
    IF pairs = <<>> THEN [err |-> NoError, node |-> map]
    ELSE LET pair  == Head(pairs)
             colon == find(pair, ":")
             key   == trim(SubSeq(pair, 1, colon - 1))
             val   == trim(SubSeq(pair, colon + 1, Len(pair)))
         IN  IF colon = 0
             THEN [err |-> YamlError("FlowMissingColon", lineNum, -1), node |-> map]
             ELSE IF key = <<>>
             THEN [err |-> YamlError("FlowEmptyKey", lineNum, -1), node |-> map]
             ELSE flowMappingPairs(Tail(pairs),
                      [map EXCEPT !.mapping = mapPut(@, key, flowScalar(val))],
                      lineNum)

parseFlowMapping(flowContent, lineNum) ==
    flowMappingPairs(splitOn(flowContent, ","), YamlNode("Mapping"), lineNum)

(***************************************************************************)
(* Block Scalar Extractor.                                                 *)
(***************************************************************************)
RECURSIVE joinLines(_)
joinLines(blockLines) ==
    IF blockLines = <<>> THEN <<>>
    ELSE Head(blockLines) \o <<"\n">> \o joinLines(Tail(blockLines))

\* The while loop of parseBlockScalar.  lineNum is the caller's counter
\* (passed by reference); minDelta is computed by the code but never read.
RECURSIVE blockScalarLoop(_, _, _, _, _)
blockScalarLoop(baseIndent, st, lineNum, blockLines, hasContent) ==
    One(UNION {UNION {{
        IF ~g.ok
        THEN [err |-> NoError, st |-> g.st, lineNum |-> lineNum,
              blockLines |-> blockLines]
        ELSE IF next.tab
        THEN [err |-> YamlError("Tabs", ln, next.indent + 1), st |-> g.st,
              lineNum |-> ln, blockLines |-> blockLines]
        ELSE IF trim(line) = <<>>
        THEN blockScalarLoop(baseIndent, g.st, ln,
                 IF hasContent THEN Append(blockLines, <<>>) ELSE blockLines,
                 hasContent)
        ELSE IF next.indent <= baseIndent
        THEN [err |-> NoError,
              st |-> seekgCur(g.st, -(Len(line) + 1)),
              lineNum |-> ln - 1, blockLines |-> blockLines]
        ELSE blockScalarLoop(baseIndent, g.st, ln,
                 Append(blockLines, substr(line, next.indent)), TRUE) :
            next \in {getIndent(line)}} :
            line \in {stripComment(g.line)}} :
            g \in {getline(st)}, ln \in {lineNum + 1}})

parseBlockScalar(baseIndent, lineNum, st) ==
    One({[err |-> r.err, st |-> r.st, lineNum |-> r.lineNum,
          content |-> joinLines(r.blockLines)] :
            r \in {blockScalarLoop(baseIndent, st, lineNum, <<>>, FALSE)}})

\* applyChomp without its trailing-newline handling.
applyChomp_Keep(content, chomp) == content

applyChomp(content, chomp) ==
    LET keep == {i \in 1..Len(content) : content[i] # "\n"}
        base == SubSeq(content, 1, SetMax(keep))
    IN  IF content = <<>> THEN content
        ELSE IF keep = {} THEN <<>>
        ELSE IF chomp = "-" THEN base
        ELSE IF chomp = "+" THEN content
        ELSE base \o <<"\n">>

RECURSIVE foldLines(_, _, _, _)
foldLines(lines, folded, first, newParagraph) ==
    IF lines = <<>> THEN folded
    ELSE IF Head(lines) = <<>>
         THEN foldLines(Tail(lines), folded, first, TRUE)
         ELSE foldLines(Tail(lines),
                  folded
                    \o (IF first THEN <<>>
                        ELSE IF newParagraph THEN <<"\n">> ELSE <<" ">>)
                    \o rtrim(Head(lines)),
                  FALSE, FALSE)

foldBlock(content) == foldLines(splitOn(content, "\n"), <<>>, TRUE, FALSE)

(***************************************************************************)
(* The inputs of the parse.  A text is a sequence of lines joined by       *)
(* newlines, with or without a newline after the last line.  The lines are *)
(* drawn from families that exercise one part of the parser each.          *)
(***************************************************************************)
\* block mappings, scalars and continuation candidates
MappingLines ==
    {<<"a", ":", " ", "x">>,
     <<"b", ":", " ", "y">>,
     <<" ", " ", "b", ":", " ", "y">>,
     <<"p", ":">>,
     <<" ", " ", "n", ":", " ", "A">>,
     <<"f", "o", "o">>,
     <<":", " ", "v">>,
     <<>>}

\* block sequences
SequenceLines ==
    {<<"k", ":">>,
     <<" ", " ", "-", " ", "a">>,
     <<" ", " ", "-", " ", "b">>,
     <<" ", " ", " ", " ", "-", " ", "c">>,
     <<"-", " ", "a">>,
     <<" ", " ", "-">>,
     <<" ", " ", " ", " ", "j", ":", " ", "w">>,
     <<"-", " ", "k", ":", " ", "v">>}

\* tabs in and after the indentation
TabLines ==
    {<<"k", ":">>,
     <<"k", ":", " ", "|">>,
     <<"\t", "v", ":", " ", "1">>,
     <<" ", "\t", "x">>,
     <<" ", " ", "x">>,
     <<"\t">>,
     <<" ", " ", "\t", "#", " ", "c">>,
     <<"b", "#", "\t", ":">>}

\* block scalars and the lines that end them
BlockLines ==
    {<<"k", ":", " ", "|">>,
     <<"k", ":", " ", ">", "-">>,
     <<"t", ":", " ", ">", "+">>,
     <<" ", " ", "x", " ">>,
     <<" ", " ", " ", " ", "y">>,
     <<>>,
     <<"b", "a", "d">>,
     <<"b", ":", " ", "c", " ", "#", " ", "d">>}

\* lines that are blank after comment stripping
BlankLines ==
    {<<"#", " ", "c">>,
     <<" ", "\t">>}

\* keys of the single-entry inputs
EntryKeys ==
    {<<"k">>,
     <<"k", " ">>}

\* values of the single-entry inputs
EntryValues ==
    {<<"v">>,
     <<"x", " ", "y">>,
     <<"\"", "a", ":", " ", "b", "\"">>,
     <<"a", ":", " ", "b">>,
     <<"a", ":", "b">>,
     <<"\"", " ", "a", " ", "\"">>,
     <<"\"", "{", "a", "}", "\"">>,
     <<"\"", "{", "a", ":", " ", "b", "}", "\"">>,
     <<"\"", "[", "a", "]", "\"">>,
     <<"'", "a", "\\", "n", "b", "'">>,
     <<"\"", "a", "\\", "t", "\"">>,
     <<"'", "I", "t", "\\", "'", "s", "'">>,
     <<"\"", "\\", "\\", "\\", "\"", "\"">>,
     <<"\"", "a", "\\", "q", "b", "\"">>,
     <<"[", "a", ",", " ", "b", "]">>,
     <<"[", " ", ",", "\"", "x", "\"", ",", "]">>,
     <<"{", "a", ":", "b", "}">>,
     <<"{", "a", ":", "b", ",", "c", "}">>,
     <<"{", "a", ":", " ", "b", "}">>,
     <<"\"", "x">>,
     <<"x", "\"">>,
     <<"'", "x", "\"">>,
     <<"\"", "\"">>,
     <<"\"">>,
     <<"'", "a", "'", " ">>,
     <<"|">>,
     <<"-">>}

EntryLines ==
    {ind \o key \o <<":">> \o sp \o value :
        ind \in {<<>>, <<" ">>}, key \in EntryKeys,
        sp \in {<<>>, <<" ">>}, value \in EntryValues}

\* headers of the block scalar inputs: both indicators, every chomp
BlockHeaders ==
    {<<"k", ":", " ", "|">>,
     <<"k", ":", " ", "|", "-">>,
     <<"k", ":", " ", "|", "+">>,
     <<"k", ":", " ", ">">>,
     <<"k", ":", " ", ">", "-">>,
     <<"k", ":", " ", ">", "+">>}

\* the lines that follow a block scalar header
BlockBodyLines ==
    {<<" ", " ", "x", " ">>,
     <<" ", " ", " ", " ", "y">>,
     <<>>,
     <<" ", " ", "a", "#", "b">>,
     <<"b", ":", " ", "c">>}

\* flow collections as the value of a single entry
FlowValues ==
    {<<"[", "a", ":", " ", "b", "]">>,
     <<"[", " ", "'", "a", "\\", "n", "'", " ", ",", "x", "]">>,
     <<"[", "\"", "a", ",", "b", "\"", ",", " ", "c", "]">>,
     <<"[", "\"", " ", "a", " ", "\"", ",", "\"", "\"", "]">>,
     <<"{", "a", ":", " ", "1", ",", " ", "b", ":", " ", "'", "c", "'", "}">>,
     <<"{", "a", ":", "1", ",", " ", "b", " ", ":", "'", "c", "'", "}">>}

FlowEntryLines == {<<"k", ":", " ">> \o v : v \in FlowValues}

RECURSIVE SeqsUpTo(_, _)
SeqsUpTo(S, n) ==
    IF n <= 0 THEN {<<>>}
    ELSE LET shorter == SeqsUpTo(S, n - 1)
         IN  shorter \cup {Append(q, x) : q \in shorter, x \in S}

RECURSIVE JoinText(_)
JoinText(lines) ==
    IF lines = <<>> THEN <<>>
    ELSE IF Len(lines) = 1 THEN Head(lines)
    ELSE Head(lines) \o <<"\n">> \o JoinText(Tail(lines))

Text(lines, finalNewline) ==
    JoinText(lines) \o (IF finalNewline /\ lines # <<>> THEN <<"\n">> ELSE <<>>)

\* lines with text that follow a scalar entry
AfterScalarLines ==
    {<<"\t", "x">>,
     <<" ", "\t", "x", ":", " ", "1">>,
     <<"-", " ", "a">>,
     <<"f", "o", "o">>,
     <<" ", " ", "j", ":", " ", "w">>}

LineFamilies == {MappingLines, SequenceLines, TabLines, BlockLines}

Inputs ==
    {Text(ls, nl) : ls \in UNION {SeqsUpTo(F, MaxLines) : F \in LineFamilies},
                    nl \in BOOLEAN}
    \cup
    {Text(<<e>> \o bl, nl) : e \in EntryLines,
                             bl \in SeqsUpTo(BlankLines, MaxLines - 1),
                             nl \in BOOLEAN}
    \cup
    {Text(<<e>>, nl) : e \in FlowEntryLines, nl \in BOOLEAN}
    \cup
    {Text(<<<<"k", ":", " ", "v">>>> \o bl \o <<t>>, TRUE) :
        bl \in SeqsUpTo(BlankLines, MaxLines - 2), t \in AfterScalarLines}
    \cup
    {Text(<<h>> \o body, nl) : h \in BlockHeaders,
                               body \in SeqsUpTo(BlockBodyLines, MaxLines),
                               nl \in BOOLEAN}

(***************************************************************************)
(* parseStream: the state after the declarations, then one action per      *)
(* outcome of an iteration of the line loop.                               *)
(***************************************************************************)
Frame(node, indent) == [node |-> node, indent |-> indent]

\* What a call of the query layer returned: a variant of deduceType or an
\* optional of a typed accessor.  long holds the decimal digits of the
\* number, text the string or the source text of a double.
NoLong == [neg |-> FALSE, mag |-> <<>>]
Returned(kind, l, b, text) == [kind |-> kind, long |-> l, bool |-> b, text |-> text]
Call(fn, path, ret) == [fn |-> fn, path |-> path, ret |-> ret]
NoCall == Call("none", <<>>, Returned("none", NoLong, FALSE, <<>>))

\* What a client asked of a NodeView and what it got: self is the view the
\* member function was called on, arg its arguments, ret what it returned.
Asked(fn, self, arg, ret) == [fn |-> fn, self |-> self, arg |-> arg, ret |-> ret]
NoQuery == Asked("none", NullPtr, <<>>, NullPtr)

\* parseStream entered with the text of the document.
parseStreamEntry(texts) ==
    /\ input \in texts
    /\ stream = StreamAt(0)
    /\ root = YamlNode("Mapping")
    /\ stack = <<Frame(<<>>, -1)>>
    /\ lastScalarNode = NullPtr
    /\ linecount = 0
    /\ status = "running"
    /\ err = NoError
    /\ result = NoCall
    /\ query = NoQuery

Init == parseStreamEntry(Inputs)

\* The line read by this iteration and what the loop head derives from it.
Got == getline(stream)
lineNo == linecount + 1
line == stripComment(Got.line)
isBlank == line = <<>> \/ trim(line) = <<>>
indent == getIndent(line).indent
content == trim(substr(line, indent))

RECURSIVE popFrames(_, _)
popFrames(stk, ind) ==
    One({IF Len(frames) > 1 /\ i <= frames[Len(frames)].indent
         THEN popFrames(SubSeq(frames, 1, Len(frames) - 1), i)
         ELSE frames : frames \in {stk}, i \in {ind}})

\* The pop loop left out: the frames of the earlier lines stay.
popped_Unpopped == stack

popped == popFrames(stack, indent)
\* The line stored in the node of the bottom frame whatever its indent.
currentNode_Bottom == popped[1].node

currentNode == popped[Len(popped)].node

\* The check after a scalar left out.
indentAfterScalar_Off == FALSE

\* Only a line that is indented is rejected after a scalar.
indentAfterScalar_Indented == indent > 0 /\ ~lastScalarNode.isNull

\* if (indent > stack.back().second && lastScalarNode)
indentAfterScalar ==
    indent > popped[Len(popped)].indent /\ ~lastScalarNode.isNull

\* A line was read, is not blank and has no tab in its indentation.
HasContent ==
    /\ status = "running"
    /\ Got.ok
    /\ ~isBlank
    /\ ~getIndent(line).tab

\* The line passed both checks that follow the frame pops.
Accepted ==
    /\ HasContent
    /\ popped # <<>>
    /\ ~indentAfterScalar

\* throw YamlError(...): the parse is over; the tree is kept as it was at
\* the throw so that it can be inspected.
Raise(e, st, lc, rt, stk) ==
    /\ status' = "error"
    /\ err' = e
    /\ stream' = st
    /\ linecount' = lc
    /\ root' = rt
    /\ stack' = stk
    /\ UNCHANGED <<query, result, input, lastScalarNode>>

EndOfInput ==
    /\ status = "running"
    /\ ~Got.ok
    /\ status' = "ok"
    /\ stream' = Got.st
    /\ UNCHANGED <<query, result, input, root, stack, lastScalarNode, linecount, err>>

BlankLine ==
    /\ status = "running"
    /\ Got.ok
    /\ isBlank
    /\ stream' = Got.st
    /\ linecount' = lineNo
    /\ UNCHANGED <<query, result, input, root, stack, lastScalarNode, status, err>>

TabsInIndent ==
    /\ status = "running"
    /\ Got.ok
    /\ ~isBlank
    /\ getIndent(line).tab
    /\ Raise(YamlError("Tabs", lineNo, indent + 1), Got.st, lineNo, root, stack)

IndentationError ==
    /\ HasContent
    /\ popped = <<>> \/ indentAfterScalar
    /\ Raise(IF popped = <<>>
             THEN YamlError("InvalidStructure", lineNo, -1)
             ELSE YamlError("UnexpectedIndent", lineNo, -1),
             Got.st, lineNo, root, popped)

\* The promotion without its test: the children are cleared on every line.
promote_AlwaysClear(node, t) == [node EXCEPT !.type = t, !.sequence = <<>>]

\* if (currentNode->type != t) { currentNode->type = t; sequence.clear(); }
promote(node, t) ==
    IF node.type # t THEN [node EXCEPT !.type = t, !.sequence = <<>>] ELSE node

\* The item built for a line "- itemValue".
sequenceItem(itemValue) ==
    LET colonPos == find(itemValue, ":")
        key == trim(SubSeq(itemValue, 1, colonPos - 1))
        val == trim(SubSeq(itemValue, colonPos + 1, Len(itemValue)))
    IN  IF itemValue = <<>> THEN YamlNode("Mapping")
        ELSE IF colonPos = 0 THEN ScalarNode(itemValue)
        ELSE IF key = <<>> THEN YamlNode("Mapping")
        ELSE [YamlNode("Mapping") EXCEPT !.mapping = mapPut(@, key, ScalarNode(val))]

SequenceItem ==
    /\ Accepted
    /\ content[1] = "-"
    /\ \E itemValue \in {trim(substr(content, 1))} :
       \E item \in {sequenceItem(itemValue)} :
       \E seqNode \in {promote(NodeAt(root, currentNode), "Sequence")} :
       \E newSeq \in {Append(seqNode.sequence, item)} :
           /\ root' = SetAt(root, currentNode, [seqNode EXCEPT !.sequence = newSeq])
           /\ stack' = IF item.type = "Mapping" /\ itemValue = <<>>
                       THEN Append(popped,
                                Frame(currentNode \o <<IdxStep(Len(newSeq))>>, indent))
                       ELSE popped
    /\ stream' = Got.st
    /\ linecount' = lineNo
    /\ UNCHANGED <<query, result, input, lastScalarNode, status, err>>

\* What a mapping line derives from its content.
colonPos == find(content, ":")
key == trim(SubSeq(content, 1, colonPos - 1))
value == trim(SubSeq(content, colonPos + 1, Len(content)))
isBlockHeader == value # <<>> /\ value[1] \in {"|", ">"}

MappingLine ==
    /\ Accepted
    /\ content[1] # "-"

\* A mapping line with a key: the container has been promoted to Mapping.
KeyedLine ==
    /\ MappingLine
    /\ colonPos # 0
    /\ key # <<>>

promotedNode == promote(NodeAt(root, currentNode), "Mapping")
promotedRoot == SetAt(root, currentNode, promotedNode)

\* currentNode->mapping[key] = newNode
storeEntry(newNode) ==
    SetAt(root, currentNode,
          [promotedNode EXCEPT !.mapping = mapPut(@, key, newNode)])

entryPath == currentNode \o <<KeyStep(key)>>

\* A line without a colon is dropped instead of being rejected.
MissingColon_Skip ==
    /\ MappingLine
    /\ colonPos = 0
    /\ stack' = popped
    /\ stream' = Got.st
    /\ linecount' = lineNo
    /\ UNCHANGED <<query, result, input, root, lastScalarNode, status, err>>

\* No colon on the line: a continuation of the last scalar, or an error.
MissingColon ==
    /\ MappingLine
    /\ colonPos = 0
    /\ IF ~lastScalarNode.isNull
       THEN /\ root' = SetAt(root, lastScalarNode.path,
                           [NodeAt(root, lastScalarNode.path) EXCEPT
                               !.scalarValue = @ \o <<"\n">> \o trim(line)])
            /\ stack' = popped
            /\ stream' = Got.st
            /\ linecount' = lineNo
            /\ UNCHANGED <<query, result, input, lastScalarNode, status, err>>
       ELSE Raise(YamlError("MissingColon", lineNo, -1), Got.st, lineNo, root, popped)

EmptyKey ==
    /\ MappingLine
    /\ colonPos # 0
    /\ key = <<>>
    /\ Raise(YamlError("EmptyKey", lineNo, -1), Got.st, lineNo, root, popped)

\* key: | or key: > with an optional chomp indicator.
BlockScalarEntry ==
    /\ KeyedLine
    /\ isBlockHeader
    /\ \E indicator \in {value[1]} :
       \E chomp \in {IF Len(value) > 1 /\ value[2] \in {"-", "+"} THEN value[2] ELSE " "} :
       \E r \in {parseBlockScalar(indent, lineNo, Got.st)} :
       \E style \in {IF indicator = "|" THEN "Literal" ELSE "Folded"} :
       \E block \in {IF style = "Folded" THEN foldBlock(r.content) ELSE r.content} :
       \E newNode \in {[YamlNode("Scalar") EXCEPT
                            !.style = style,
                            !.scalarValue = applyChomp(block, chomp)]} :
           IF r.err # NoError
           THEN Raise(r.err, r.st, r.lineNum, promotedRoot, popped)
           ELSE /\ root' = storeEntry(newNode)
                /\ lastScalarNode' = NullPtr
                /\ stack' = popped
                /\ stream' = r.st
                /\ linecount' = r.lineNum
                /\ UNCHANGED <<query, result, input, status, err>>

\* The quote test left out: every value is taken as unquoted.
wasQuoted_Never == FALSE

\* The node of a non-empty value that is not a block scalar header:
\* wasQuoted, then the text after the quote strip and after the second trim.
wasQuoted == isQuoted(value)
unquoted == IF wasQuoted THEN dequote(value) ELSE value
flowText == trim(unquoted)
isDelimited(v, open, close) == v # <<>> /\ v[1] = open /\ v[Len(v)] = close

inlineNode ==
    IF ~wasQuoted /\ containsColonSpace(unquoted)
    THEN [err |-> YamlError("AmbiguousColon", lineNo, -1), node |-> YamlNode("Scalar")]
    ELSE IF isDelimited(flowText, "[", "]")
    THEN [err |-> NoError,
          node |-> parseFlowSequence(SubSeq(flowText, 2, Len(flowText) - 1))]
    ELSE IF isDelimited(flowText, "{", "}")
    THEN parseFlowMapping(SubSeq(flowText, 2, Len(flowText) - 1), lineNo)
    ELSE [err |-> NoError, node |-> ScalarNode(flowText)]

InlineValueEntry ==
    /\ KeyedLine
    /\ value # <<>>
    /\ ~isBlockHeader
    /\ IF inlineNode.err # NoError
       THEN Raise(inlineNode.err, Got.st, lineNo, promotedRoot, popped)
       ELSE /\ root' = storeEntry(inlineNode.node)
            /\ lastScalarNode' = IF inlineNode.node.type = "Scalar"
                                 THEN Ptr(entryPath) ELSE NullPtr
            /\ stack' = popped
            /\ stream' = Got.st
            /\ linecount' = lineNo
            /\ UNCHANGED <<query, result, input, status, err>>

\* key: with nothing after the colon: the next physical line is peeked.
EmptyValueEntry ==
    /\ KeyedLine
    /\ value = <<>>
    /\ \E pos \in {tellg(Got.st)} :
       \E peek \in {getline(pos.st)} :
       \E peekIndent \in {getIndent(peek.line)} :
       \E peekContent \in {trim(substr(peek.line, peekIndent.indent))} :
       \E inferredType \in {IF peek.ok /\ peekContent # <<>> /\ peekContent[1] = "-"
                             THEN "Sequence" ELSE "Mapping"} :
           IF peek.ok /\ peekIndent.tab
           THEN Raise(YamlError("Tabs", lineNo + 1, peekIndent.indent + 1),
                      peek.st, lineNo, promotedRoot, popped)
           ELSE /\ root' = storeEntry(YamlNode(inferredType))
                /\ stack' = Append(popped, Frame(entryPath, indent))
                /\ lastScalarNode' = NullPtr
                /\ stream' = IF peek.ok THEN seekgTo(peek.st, pos.pos) ELSE peek.st
                /\ linecount' = lineNo
                /\ UNCHANGED <<query, result, input, status, err>>

Next ==
    \/ EndOfInput
    \/ BlankLine
    \/ TabsInIndent
    \/ IndentationError
    \/ SequenceItem
    \/ MissingColon
    \/ EmptyKey
    \/ BlockScalarEntry
    \/ InlineValueEntry
    \/ EmptyValueEntry

Spec == Init /\ [][Next]_vars

(***************************************************************************)
(* Scalar Classifier and typed accessors.  A long is held as its sign and  *)
(* its decimal digits without leading zeros; a double is held as the text  *)
(* it was converted from.                                                  *)
(***************************************************************************)
DigitChars == <<"0", "1", "2", "3", "4", "5", "6", "7", "8", "9">>
DecDigits == {DigitChars[i] : i \in 1..10}
HexDigits == DecDigits \cup {"a", "b", "c", "d", "e", "f", "A", "B", "C", "D", "E", "F"}
SpaceChars == {" ", "\t", "\n", "\r", "\f"}
UpperChars == <<"A", "B", "C", "D", "E", "F", "G", "H", "I", "J", "K", "L", "M", "N", "O", "P", "Q", "R", "S", "T", "U", "V", "W", "X", "Y", "Z">>
LowerChars == <<"a", "b", "c", "d", "e", "f", "g", "h", "i", "j", "k", "l", "m", "n", "o", "p", "q", "r", "s", "t", "u", "v", "w", "x", "y", "z">>

digitValue(c) == (CHOOSE i \in 1..10 : DigitChars[i] = c) - 1

tolower(c) ==
    IF \E i \in 1..26 : UpperChars[i] = c
    THEN LowerChars[CHOOSE i \in 1..26 : UpperChars[i] = c]
    ELSE c

\* std::equal over both ranges: the lengths are compared too.
iequals(a, b) ==
    /\ Len(a) = Len(b)
    /\ \A i \in 1..Len(a) : tolower(a[i]) = tolower(b[i])

\* The number of characters of s from index i on that are in set.
RECURSIVE runLength(_, _, _)
runLength(s, i, set) ==
    IF i <= Len(s) /\ s[i] \in set THEN 1 + runLength(s, i + 1, set) ELSE 0

stripZeros(digits) ==
    LET nz == {i \in 1..Len(digits) : digits[i] # "0"}
    IN  IF nz = {} THEN <<"0">> ELSE SubSeq(digits, SetMin(nz), Len(digits))

\* LONG_MAX and the magnitude of LONG_MIN (64 bits).
LONG_MAX == <<"9", "2", "2", "3", "3", "7", "2", "0", "3", "6", "8", "5", "4", "7", "7", "5", "8", "0", "7">>
LONG_MIN == <<"9", "2", "2", "3", "3", "7", "2", "0", "3", "6", "8", "5", "4", "7", "7", "5", "8", "0", "8">>

\* a <= b for two magnitudes without leading zeros.
magLeq(a, b) ==
    \/ Len(a) < Len(b)
    \/ /\ Len(a) = Len(b)
       /\ \/ a = b
          \/ \E i \in 1..Len(a) :
                /\ \A j \in 1..(i - 1) : a[j] = b[j]
                /\ digitValue(a[i]) < digitValue(b[i])

\* The value of a sign and a run of digits, or overflow.
toLong(neg, digits) ==
    One({[overflow |-> ~magLeq(mag, lim),
          value |-> [neg |-> neg /\ mag # <<"0">>, mag |-> mag]] :
            mag \in {stripZeros(digits)},
            lim \in {IF neg THEN LONG_MIN ELSE LONG_MAX}})

\* The number of characters of leading whitespace and of the sign after it.
signEnd(s) ==
    LET ws == runLength(s, 1, SpaceChars)
    IN  ws + (IF ws < Len(s) /\ s[ws + 1] \in {"+", "-"} THEN 1 ELSE 0)

\* The conversion of the n digits that follow the first b characters.
digitsToLong(s, b, n) ==
    toLong(b > 0 /\ s[b] = "-", SubSeq(s, b + 1, b + n))

\* std::stol(val, &pos): ok is FALSE when it throws.
stol(val) ==
    One(UNION {{IF n = 0 \/ l.overflow
                THEN [ok |-> FALSE, pos |-> 0, value |-> NoLong]
                ELSE [ok |-> TRUE, pos |-> b + n, value |-> l.value] :
                   n \in {runLength(val, b + 1, DecDigits)},
                   l \in {digitsToLong(val, b, runLength(val, b + 1, DecDigits))}} :
               b \in {signEnd(val)}})

\* std::from_chars(b, e, v) for long long: no leading whitespace, no "+".
from_chars(s) ==
    One(UNION {{IF n = 0
                THEN [ec |-> "invalid_argument", ptr |-> 0, value |-> NoLong]
                ELSE IF l.overflow
                THEN [ec |-> "result_out_of_range", ptr |-> b + n, value |-> NoLong]
                ELSE [ec |-> "", ptr |-> b + n, value |-> l.value] :
                   n \in {runLength(s, b + 1, DecDigits)},
                   l \in {digitsToLong(s, b, runLength(s, b + 1, DecDigits))}} :
               b \in {IF s # <<>> /\ s[1] = "-" THEN 1 ELSE 0}})

\* digits with at most one point and at least one digit
isMantissa(t, digits) ==
    /\ \A i \in 1..Len(t) : t[i] \in digits \cup {"."}
    /\ Cardinality({i \in 1..Len(t) : t[i] = "."}) <= 1
    /\ \E i \in 1..Len(t) : t[i] \in digits

\* an exponent character, an optional sign and at least one decimal digit
isExponent(t, expChars) ==
    /\ Len(t) >= 2
    /\ t[1] \in expChars
    /\ \E d \in {IF t[2] \in {"+", "-"} THEN SubSeq(t, 3, Len(t)) ELSE SubSeq(t, 2, Len(t))} :
          d # <<>> /\ \A i \in 1..Len(d) : d[i] \in DecDigits

\* a mantissa followed by nothing or by an exponent
isNumber(t, digits, expChars) ==
    \E m \in 1..Len(t) :
        /\ isMantissa(SubSeq(t, 1, m), digits)
        /\ m = Len(t) \/ isExponent(SubSeq(t, m + 1, Len(t)), expChars)

\* The subject sequences of strtod after whitespace and sign: inf,
\* infinity, nan (without a parenthesised sequence), a hexadecimal and a
\* decimal floating-point number.
isSubject(t) ==
    \/ iequals(t, <<"i", "n", "f">>)
    \/ iequals(t, <<"i", "n", "f", "i", "n", "i", "t", "y">>)
    \/ iequals(t, <<"n", "a", "n">>)
    \/ /\ Len(t) >= 3
       /\ t[1] = "0"
       /\ t[2] \in {"x", "X"}
       /\ isNumber(SubSeq(t, 3, Len(t)), HexDigits, {"p", "P"})
    \/ isNumber(t, DecDigits, {"e", "E"})

\* The number written by the decimal digits d, 9999 when it has more than
\* three digits.
smallNumber(d) ==
    IF Len(d) > 3 THEN 9999
    ELSE IF Len(d) = 3
    THEN 100 * digitValue(d[1]) + 10 * digitValue(d[2]) + digitValue(d[3])
    ELSE IF Len(d) = 2 THEN 10 * digitValue(d[1]) + digitValue(d[2])
    ELSE digitValue(d[1])

\* The decimal number t is outside the range of double: decided by the
\* decimal exponent of its first significant digit, which is exact except
\* within a factor of ten of the limits.
outOfRange(t) ==
    LET ePos  == {i \in 1..Len(t) : t[i] \in {"e", "E"}}
        m     == IF ePos = {} THEN Len(t) ELSE SetMin(ePos) - 1
        dot   == {i \in 1..m : t[i] = "."}
        a     == IF dot = {} THEN m ELSE SetMin(dot) - 1
        sig   == {i \in 1..m : t[i] \notin {".", "0"}}
        place == IF SetMin(sig) <= a THEN a - SetMin(sig) ELSE a + 1 - SetMin(sig)
        neg   == t[m + 2] = "-"
        d     == stripZeros(SubSeq(t, IF t[m + 2] \in {"+", "-"} THEN m + 3 ELSE m + 2,
                                   Len(t)))
        expo  == IF ePos = {} THEN 0
                 ELSE IF neg THEN -smallNumber(d) ELSE smallNumber(d)
    IN  /\ \E i \in 1..Len(t) : t[i] \in DecDigits
        /\ \A i \in 1..Len(t) : t[i] \notin {"x", "X"}
        /\ sig # {}
        /\ \E e10 \in {place + expo} : e10 > 308 \/ e10 < -308

\* strtod: pos is the number of characters converted, 0 when there is no
\* conversion: the longest subject sequence after whitespace and sign.
\* erange is TRUE when errno is set to ERANGE.
strtod(s) ==
    One(UNION {{IF ends = {} THEN [pos |-> 0, erange |-> FALSE]
                ELSE [pos |-> SetMax(ends),
                      erange |-> outOfRange(SubSeq(s, b + 1, SetMax(ends)))] :
                   ends \in {{p \in (b + 1)..Len(s) :
                                \E t \in {SubSeq(s, b + 1, p)} : isSubject(t)}}} :
               b \in {signEnd(s)}})

\* std::stod(val, &pos): ok is FALSE when it throws.
stod(val) ==
    One({IF r.pos = 0 \/ r.erange
         THEN [ok |-> FALSE, pos |-> 0]
         ELSE [ok |-> TRUE, pos |-> r.pos] : r \in {strtod(val)}})

Monostate == Returned("monostate", NoLong, FALSE, <<>>)
Nullopt == Returned("nullopt", NoLong, FALSE, <<>>)
LongOf(l) == Returned("long", l, FALSE, <<>>)
DoubleOf(text) == Returned("double", NoLong, FALSE, text)
BoolOf(b) == Returned("bool", NoLong, b, <<>>)
StringOf(text) == Returned("string", NoLong, FALSE, text)

\* The test for the whole text left out: a prefix that converts is enough.
wholeText_Prefix(pos, val) == TRUE

\* pos == val.length()
wholeText(pos, val) == pos = Len(val)

\* iequals(val, "null") || val == "~" || val.empty()
isNullLiteral(val) ==
    iequals(val, <<"n", "u", "l", "l">>) \/ val = <<"~">> \/ val = <<>>

deduceType(val) ==
    LET l == stol(val)
        d == stod(val)
    IN  IF l.ok /\ wholeText(l.pos, val) THEN LongOf(l.value)
        ELSE IF d.ok /\ wholeText(d.pos, val) THEN DoubleOf(val)
        ELSE IF \/ iequals(val, <<"Y", "e", "s">>)
                \/ iequals(val, <<"T", "r", "u", "e">>)
                \/ iequals(val, <<"o", "n">>)
                \/ iequals(val, <<"t", "r", "u", "e">>)
        THEN BoolOf(TRUE)
        ELSE IF \/ iequals(val, <<"N", "o">>)
                \/ iequals(val, <<"F", "a", "l", "s", "e">>)
                \/ iequals(val, <<"o", "f", "f">>)
                \/ iequals(val, <<"f", "a", "l", "s", "e">>)
        THEN BoolOf(FALSE)
        ELSE IF isNullLiteral(val) THEN Monostate
        ELSE StringOf(val)

isScalar(n) == n.type = "Scalar"

toBool(n) ==
    IF ~isScalar(n) THEN Nullopt
    ELSE IF isNullLiteral(n.scalarValue) THEN Nullopt
    ELSE IF \/ iequals(n.scalarValue, <<"t", "r", "u", "e">>)
            \/ iequals(n.scalarValue, <<"y", "e", "s">>)
            \/ iequals(n.scalarValue, <<"o", "n">>)
    THEN BoolOf(TRUE)
    ELSE IF \/ iequals(n.scalarValue, <<"f", "a", "l", "s", "e">>)
            \/ iequals(n.scalarValue, <<"n", "o">>)
            \/ iequals(n.scalarValue, <<"o", "f", "f">>)
    THEN BoolOf(FALSE)
    ELSE Nullopt

toInt(n) ==
    LET r == from_chars(n.scalarValue)
    IN  IF ~isScalar(n) THEN Nullopt
        ELSE IF isNullLiteral(n.scalarValue) THEN Nullopt
        ELSE IF r.ec = "" /\ r.ptr = Len(n.scalarValue) THEN LongOf(r.value)
        ELSE Nullopt

toDouble(n) ==
    LET r == strtod(n.scalarValue)
    IN  IF ~isScalar(n) THEN Nullopt
        ELSE IF isNullLiteral(n.scalarValue) THEN Nullopt
        ELSE IF ~r.erange /\ r.pos = Len(n.scalarValue) THEN DoubleOf(n.scalarValue)
        ELSE Nullopt

(***************************************************************************)
(* The documents whose scalars are read through the query layer, and the   *)
(* calls a client makes on the tree that parse returned.                   *)
(***************************************************************************)
\* values of the single-entry documents
TypedValues ==
    {<<"4", "2">>,
     <<"-", "7">>,
     <<"+", "5">>,
     <<"0", "0", "7">>,
     <<"-", "0">>,
     <<"3", ".", "1", "4">>,
     <<"1", "e", "3">>,
     <<"1", "e", "9", "9", "9">>,
     <<"1", "e", "-", "9", "9", "9">>,
     <<".", "5">>,
     <<"5", ".">>,
     <<"5", ".", "e">>,
     <<"0", "x", "1", "A">>,
     <<"0", "x">>,
     <<"i", "n", "f">>,
     <<"-", "I", "n", "f", "i", "n", "i", "t", "y">>,
     <<"N", "a", "N">>,
     <<"T", "r", "u", "e">>,
     <<"y", "e", "s">>,
     <<"O", "N">>,
     <<"o", "f", "f">>,
     <<"N", "o">>,
     <<"F", "A", "L", "S", "E">>,
     <<"n", "u", "l", "l">>,
     <<"N", "U", "L", "L">>,
     <<"~">>,
     <<"h", "e", "l", "l", "o">>,
     <<"5", "x">>,
     <<"n", "u", "l">>,
     <<"t", "r", "u">>,
     <<"-">>,
     <<"1", ".", "2", ".", "3">>,
     <<"1", "e", "+", "2">>,
     <<"0", "e", "9", "9", "9">>,
     <<"9", "2", "2", "3", "3", "7", "2", "0", "3", "6", "8", "5", "4", "7", "7", "5", "8", "0", "7">>,
     <<"9", "2", "2", "3", "3", "7", "2", "0", "3", "6", "8", "5", "4", "7", "7", "5", "8", "0", "8">>,
     <<"-", "9", "2", "2", "3", "3", "7", "2", "0", "3", "6", "8", "5", "4", "7", "7", "5", "8", "0", "8">>,
     <<"-", "9", "2", "2", "3", "3", "7", "2", "0", "3", "6", "8", "5", "4", "7", "7", "5", "8", "0", "9">>,
     <<"\"", "\"">>,
     <<"[", "\"", " ", "5", "\"", ",", " ", "\"", "\\", "t", "7", "\"", "]">>,
     <<"\"", "5", "\\", "n", "\"">>}

\* lines of the documents with more than one line
TypedLines ==
    {<<"n", ":", " ", "4", "2">>,
     <<"k", ":">>,
     <<" ", " ", "-", " ", "+", "5">>,
     <<"s", ":", " ", "|", "-">>,
     <<>>,
     <<"\t", "v">>,
     <<"o", "n">>,
     <<":", " ", "v">>}

TypedInputs ==
    {Text(<<<<"k", ":", " ">> \o v>>, nl) : v \in TypedValues, nl \in BOOLEAN}
    \cup
    {Text(ls, TRUE) : ls \in SeqsUpTo(TypedLines, MaxLines)}

\* The paths of the nodes of the tree n (NodeView::operator[]).
RECURSIVE NodePaths(_)
NodePaths(n) ==
    {<<>>}
    \cup (IF n.type = "Mapping"
          THEN UNION {{<<KeyStep(k)>> \o p : p \in NodePaths(n.mapping[k])} :
                         k \in DOMAIN n.mapping}
          ELSE {})
    \cup (IF n.type = "Sequence"
          THEN UNION {{<<IdxStep(i)>> \o p : p \in NodePaths(n.sequence[i])} :
                         i \in DOMAIN n.sequence}
          ELSE {})

\* A call on the node at path of the returned tree.
Query(fn, path, ret) ==
    /\ result' = Call(fn, path, ret)
    /\ UNCHANGED <<input, stream, root, stack, lastScalarNode, linecount,
                   status, err, query>>

\* deduceType(n.scalarValue) for a scalar n of the tree
DeduceType ==
    /\ status = "ok"
    /\ \E path \in NodePaths(root) : \E n \in {NodeAt(root, path)} :
          /\ isScalar(n)
          /\ Query("deduceType", path, deduceType(n.scalarValue))

ToBool ==
    /\ status = "ok"
    /\ \E path \in NodePaths(root) : \E n \in {NodeAt(root, path)} :
          Query("toBool", path, toBool(n))

ToInt ==
    /\ status = "ok"
    /\ \E path \in NodePaths(root) : \E n \in {NodeAt(root, path)} :
          Query("toInt", path, toInt(n))

ToDouble ==
    /\ status = "ok"
    /\ \E path \in NodePaths(root) : \E n \in {NodeAt(root, path)} :
          Query("toDouble", path, toDouble(n))

TypedInit == parseStreamEntry(TypedInputs)

TypedNext ==
    \/ Next
    \/ DeduceType
    \/ ToBool
    \/ ToInt
    \/ ToDouble

TypedSpec == TypedInit /\ [][TypedNext]_vars

(***************************************************************************)
(* NodeView: a pointer to a node of the tree, or the empty view.  A view   *)
(* is a value; each member function below is computed on the tree that     *)
(* parse returned.                                                         *)
(***************************************************************************)
\* n && n->type == ...
is_scalar(v) == ~v.isNull /\ NodeAt(root, v.path).type = "Scalar"
is_map(v) == ~v.isNull /\ NodeAt(root, v.path).type = "Mapping"
is_seq(v) == ~v.isNull /\ NodeAt(root, v.path).type = "Sequence"

\* size_t: 64 bits, as four limbs of 16 bits, the most significant first.
Limb == 65536
SizeT(n) == <<0, 0, 0, n>>

\* idx * 10 + d in size_t arithmetic: the carry out of the top limb is lost.
timesTenPlus(idx, d) ==
    LET l0 == idx[4] * 10 + d
        l1 == idx[3] * 10 + (l0 \div Limb)
        l2 == idx[2] * 10 + (l1 \div Limb)
        l3 == idx[1] * 10 + (l2 \div Limb)
    IN  <<l3 % Limb, l2 % Limb, l1 % Limb, l0 % Limb>>

\* Only the first item of a container taken as in range.
sizeLess_First(idx, size) == idx = <<0, 0, 0, 0>> /\ 0 < size

\* idx < size for the size of a container of the tree
sizeLess(idx, size) == idx[1] = 0 /\ idx[2] = 0 /\ idx[3] = 0 /\ idx[4] < size

\* NodeView::operator[](const std::string &key)
operatorIndexKey(v, name) ==
    IF ~is_map(v) THEN NullPtr
    ELSE IF name \notin DOMAIN NodeAt(root, v.path).mapping THEN NullPtr
    ELSE Ptr(v.path \o <<KeyStep(name)>>)

\* NodeView::operator[](size_t idx)
operatorIndexIdx(v, idx) ==
    IF ~is_seq(v) THEN NullPtr
    ELSE IF ~sizeLess(idx, Len(NodeAt(root, v.path).sequence)) THEN NullPtr
    ELSE Ptr(v.path \o <<IdxStep(idx[4] + 1)>>)

\* The digit loop of at_path: the index read from the n digits after
\* position p, starting from idx.
RECURSIVE indexDigits(_, _, _, _)
indexDigits(path, p, n, idx) ==
    IF n = 0 THEN idx
    ELSE indexDigits(path, p + 1, n - 1,
                     timesTenPlus(idx, digitValue(path[p + 1])))

\* The loop of at_path from position p with the view cur.
RECURSIVE at_pathFrom(_, _, _)
at_pathFrom(path, p, cur) ==
    IF p >= Len(path) THEN cur
    ELSE IF path[p + 1] = "." THEN at_pathFrom(path, p + 1, cur)
    ELSE
    LET tokenLen == runLength(path, p + 1,
                              {path[i] : i \in 1..Len(path)} \ {".", "["})
        token == SubSeq(path, p + 1, p + tokenLen)
        q == p + tokenLen
        keyed == IF token # <<>> THEN operatorIndexKey(cur, token) ELSE cur
    IN  IF token # <<>> /\ keyed.isNull THEN NullPtr
        ELSE IF q < Len(path) /\ path[q + 1] = "["
        THEN LET digits == runLength(path, q + 2, DecDigits)
                 idx == indexDigits(path, q + 1, digits, SizeT(0))
                 close == q + 1 + digits
                 item == operatorIndexIdx(keyed, idx)
             IN  IF close = Len(path) \/ path[close + 1] # "]" THEN NullPtr
                 ELSE IF item.isNull THEN NullPtr
                 ELSE at_pathFrom(path, close + 1, item)
        ELSE at_pathFrom(path, q, keyed)

\* NodeView::at_path(std::string_view path)
at_path(v, path) == at_pathFrom(path, 0, v)

\* The decimal digits of a natural number.
RECURSIVE decimal(_)
decimal(x) ==
    IF x < 10 THEN <<DigitChars[x + 1]>>
    ELSE Append(decimal(x \div 10), DigitChars[(x % 10) + 1])

\* The low 32 bits of a magnitude given by its decimal digits, as two limbs.
RECURSIVE lowWord(_, _)
lowWord(digits, acc) ==
    IF digits = <<>> THEN acc
    ELSE LET lo == acc[2] * 10 + digitValue(Head(digits))
             hi == acc[1] * 10 + (lo \div Limb)
         IN  lowWord(Tail(digits), <<hi % Limb, lo % Limb>>)

\* static_cast<int>(long long): the value modulo 2^32 read as a signed int.
static_cast_int(l) ==
    LET m == lowWord(l.mag, <<0, 0>>)
        u == IF ~l.neg THEN m
             ELSE <<(Limb - 1 - m[1] + (IF m[2] = 0 THEN 1 ELSE 0)) % Limb,
                    (Limb - m[2]) % Limb>>
        x == IF u[1] >= Limb \div 2 THEN (u[1] - Limb) * Limb + u[2]
             ELSE u[1] * Limb + u[2]
    IN  IF x >= 0 THEN [neg |-> FALSE, mag |-> decimal(x)]
        ELSE IF x = -2147483647 - 1
        THEN [neg |-> TRUE, mag |-> <<"2", "1", "4", "7", "4", "8", "3", "6", "4", "8">>]
        ELSE [neg |-> TRUE, mag |-> decimal(-x)]

\* NodeView::value<T>(path, def) for T one of std::string, bool, int,
\* long long and double.
value_T(v, T, path, def) ==
    LET r == at_path(v, path)
        n == NodeAt(root, r.path)
    IN  IF r.isNull THEN def
        ELSE IF T = "std::string"
        THEN IF is_scalar(r) THEN StringOf(n.scalarValue) ELSE def
        ELSE IF T = "bool"
        THEN IF toBool(n) # Nullopt THEN toBool(n) ELSE def
        ELSE IF T = "int"
        THEN IF toInt(n) # Nullopt THEN LongOf(static_cast_int(toInt(n).long))
             ELSE def
        ELSE IF T = "long long"
        THEN IF toInt(n) # Nullopt THEN toInt(n) ELSE def
        ELSE IF toDouble(n) # Nullopt THEN toDouble(n) ELSE def

\* The call did not return: the process was stopped by a signal.
Crashed == Returned("crash", NoLong, FALSE, <<>>)

\* *n for n == nullptr is undefined: the read of the node's type through
\* the null pointer stops the process, or yields a type that is not Scalar.
NullDereference == {Crashed, Nullopt}

\* NodeView::to_bool(), to_int(), to_double(): the outcomes of the call
to_bool(v) == IF v.isNull THEN NullDereference ELSE {toBool(NodeAt(root, v.path))}
to_int(v) == IF v.isNull THEN NullDereference ELSE {toInt(NodeAt(root, v.path))}
to_double(v) == IF v.isNull THEN NullDereference ELSE {toDouble(NodeAt(root, v.path))}

(***************************************************************************)
(* The documents a client queries and the calls it makes on their views.   *)
(***************************************************************************)
QueryLines ==
    {<<"a", ":">>,
     <<" ", " ", "b", ":">>,
     <<" ", " ", " ", " ", "-", " ", "1">>,
     <<" ", " ", " ", " ", "-", " ", "2">>}

\* documents of one entry
QueryEntries ==
    {<<"k", ":", " ", "[", "5", ",", "o", "n", "]">>,
     <<"n", ":", " ", "4", "2", "9", "4", "9", "6", "7", "2", "9", "8">>,
     <<"m", ":", " ", "-", "2", "1", "4", "7", "4", "8", "3", "6", "4", "9">>,
     <<"z", ":", " ", "~">>,
     <<"t", ":", " ", "o", "f", "f">>,
     <<"d", ":", " ", "1", "e", "3">>,
     <<"s", ":", " ", "|", "-">>,
     <<>>}

\* lines that end the parse with an error
QueryErrorLines ==
    {<<"\t", "v">>,
     <<"o", "n">>,
     <<":", " ", "v">>,
     <<" ", " ", "x">>}

QueryInputs ==
    {Text(ls, TRUE) : ls \in SeqsUpTo(QueryLines, MaxLines)}
    \cup {Text(<<e>>, nl) : e \in QueryEntries, nl \in BOOLEAN}
    \cup {Text(<<e, l>>, TRUE) : e \in QueryEntries, l \in QueryErrorLines}

\* keys, indices, paths, result types and defaults of the calls
QueryKeys == {<<"a">>, <<"b">>, <<"k">>, <<"q">>}
MaxIndex == 2
QueryPaths ==
    {<<>>,
     <<"a">>,
     <<"a", ".", "b">>,
     <<"a", ".", "b", "[", "0", "]">>,
     <<"a", ".", "b", "[", "1", "]">>,
     <<"a", "[", "1", "]">>,
     <<"a", "[", "0", "1", "]">>,
     <<"a", ".", "b", "[", "2", "]">>,
     <<"a", ".", "q">>,
     <<"a", ".", "b", ".", "q">>,
     <<"a", ".", "b", "[", "0", "]", ".", "q">>,
     <<"a", ".", "b", "[", "0", "]", "[", "0", "]">>,
     <<"a", "[", "x", "]">>,
     <<"a", "[", "1">>,
     <<"a", "[">>,
     <<"a", "[", "]">>,
     <<"a", "[", "1", "8", "4", "4", "6", "7", "4", "4", "0", "7", "3", "7", "0", "9", "5", "5", "1", "6", "1", "6", "]">>,
     <<"a", "[", "1", "8", "4", "4", "6", "7", "4", "4", "0", "7", "3", "7", "0", "9", "5", "5", "1", "6", "1", "7", "]">>,
     <<"a", "[", "6", "5", "5", "3", "6", "]">>,
     <<"a", ".", ".", "b">>,
     <<".", "a">>,
     <<"a", ".", "b", ".", "[", "0", "]">>,
     <<"a", "[", "1", "]", ".">>,
     <<"a", "[", "1", "]", "b">>,
     <<"[", "0", "]">>,
     <<"k", "[", "1", "]">>,
     <<"k">>,
     <<"n">>,
     <<"m">>,
     <<"z">>,
     <<"t">>,
     <<"d">>,
     <<"s">>}
QueryTypes == {"std::string", "bool", "int", "long long", "double"}
Default(T) ==
    IF T = "std::string" THEN StringOf(<<"d", "e", "f">>)
    ELSE IF T = "bool" THEN BoolOf(TRUE)
    ELSE IF T = "double" THEN DoubleOf(<<"7", ".", "5">>)
    ELSE LongOf([neg |-> FALSE, mag |-> <<"9", "9">>])

\* The views a client can hold: the view of a node of the tree, reached
\* from doc.view() by operator[], and the empty view of a failed lookup.
Views == {NullPtr} \cup {Ptr(p) : p \in NodePaths(root)}

\* A call of a member function of the view self.  The member functions
\* are const and what one returns does not depend on the calls made before
\* it: a behaviour holds one call on the tree.
Ask(fn, self, arg, ret) ==
    /\ query = NoQuery
    /\ query' = Asked(fn, self, arg, ret)
    /\ UNCHANGED <<input, stream, root, stack, lastScalarNode, linecount,
                   status, err, result>>

IndexKey ==
    /\ status = "ok"
    /\ \E self \in Views : \E name \in QueryKeys :
          Ask("operator[](key)", self, name, operatorIndexKey(self, name))

IndexIdx ==
    /\ status = "ok"
    /\ \E self \in Views : \E idx \in 0..MaxIndex :
          Ask("operator[](idx)", self, SizeT(idx), operatorIndexIdx(self, SizeT(idx)))

AtPath ==
    /\ status = "ok"
    /\ \E self \in Views : \E path \in QueryPaths :
          Ask("at_path", self, path, at_path(self, path))

Value ==
    /\ status = "ok"
    /\ \E self \in Views : \E path \in QueryPaths : \E T \in QueryTypes :
          Ask("value", self, [T |-> T, path |-> path, def |-> Default(T)],
              value_T(self, T, path, Default(T)))

ViewToBool ==
    /\ status = "ok"
    /\ \E self \in Views : \E ret \in to_bool(self) :
          Ask("to_bool", self, <<>>, ret)

ViewToInt ==
    /\ status = "ok"
    /\ \E self \in Views : \E ret \in to_int(self) :
          Ask("to_int", self, <<>>, ret)

ViewToDouble ==
    /\ status = "ok"
    /\ \E self \in Views : \E ret \in to_double(self) :
          Ask("to_double", self, <<>>, ret)

QueryInit == parseStreamEntry(QueryInputs)

QueryNext ==
    \/ Next
    \/ IndexKey
    \/ IndexIdx
    \/ AtPath
    \/ Value
    \/ ViewToBool
    \/ ViewToInt
    \/ ViewToDouble

QuerySpec == QueryInit /\ [][QueryNext]_vars

(***************************************************************************)
(* Vocabulary of the properties.  It describes the input text and the      *)
(* shapes of line the properties speak about, and is defined on the text   *)
(* alone, without the operators of the parser.                             *)
(***************************************************************************)
Finished == status # "running"

IsBlankChar(c) == c = " " \/ c = "\t"

FirstIndex(t, c) ==
    IF \E i \in 1..Len(t) : t[i] = c
    THEN CHOOSE i \in 1..Len(t) : t[i] = c /\ \A j \in 1..(i - 1) : t[j] # c
    ELSE 0

RECURSIVE Strip(_)
Strip(t) ==
    IF t = <<>> THEN <<>>
    ELSE IF IsBlankChar(t[1]) THEN Strip(Tail(t))
    ELSE IF IsBlankChar(t[Len(t)]) THEN Strip(SubSeq(t, 1, Len(t) - 1))
    ELSE t

\* The physical lines of a text: a newline ends a line.
RECURSIVE PhysicalLines(_)
PhysicalLines(t) ==
    IF t = <<>> THEN <<>>
    ELSE IF FirstIndex(t, "\n") = 0 THEN <<t>>
    ELSE <<SubSeq(t, 1, FirstIndex(t, "\n") - 1)>>
             \o PhysicalLines(SubSeq(t, FirstIndex(t, "\n") + 1, Len(t)))

InputLines == PhysicalLines(input)

\* The number of the physical line that ends at the read position p.
PhysicalLine(p) == 1 + Cardinality({i \in 1..(p - 1) : input[i] = "\n"})

\* The text of a line before its comment.
BeforeComment(l) ==
    IF FirstIndex(l, "#") = 0 THEN l ELSE SubSeq(l, 1, FirstIndex(l, "#") - 1)

HasText(l) == Strip(BeforeComment(l)) # <<>>

RECURSIVE LeadingSpaces(_)
LeadingSpaces(l) ==
    IF l # <<>> /\ l[1] = " " THEN 1 + LeadingSpaces(Tail(l)) ELSE 0

\* The leading whitespace of l contains a tab.
HasLeadingTab(l) ==
    \E i \in 1..Len(l) : l[i] = "\t" /\ \A j \in 1..(i - 1) : IsBlankChar(l[j])

KeyText(l) == Strip(SubSeq(l, 1, FirstIndex(l, ":") - 1))
ValueText(l) == Strip(SubSeq(l, FirstIndex(l, ":") + 1, Len(l)))

\* l reads "key: ..." with a non-empty key, no comment and no tab before
\* the key.
IsEntryLine(l) ==
    /\ FirstIndex(l, "#") = 0
    /\ ~HasLeadingTab(l)
    /\ FirstIndex(l, ":") # 0
    /\ KeyText(l) # <<>>
    /\ KeyText(l)[1] # "-"

WrappedInQuotes(v) ==
    /\ Len(v) >= 2
    /\ v[1] = "\"" \/ v[1] = "'"
    /\ v[Len(v)] = v[1]

HasColonSpace(v) == \E i \in 1..(Len(v) - 1) : v[i] = ":" /\ v[i + 1] = " "

IsEscapeLetter(c) == c \in {"n", "t", "\\", "'", "\""}

\* Every backslash of t starts one of the escapes \n \t \\ \' \".
RECURSIVE KnownEscapesOnly(_)
KnownEscapesOnly(t) ==
    IF t = <<>> THEN TRUE
    ELSE IF t[1] = "\\"
         THEN Len(t) >= 2 /\ IsEscapeLetter(t[2]) /\ KnownEscapesOnly(SubSeq(t, 3, Len(t)))
         ELSE KnownEscapesOnly(Tail(t))

\* t with the escapes \n \t \\ \' \" replaced by what they stand for.
RECURSIVE ResolveEscapes(_)
ResolveEscapes(t) ==
    IF t = <<>> THEN <<>>
    ELSE IF t[1] = "\\" /\ Len(t) >= 2 /\ IsEscapeLetter(t[2])
         THEN <<IF t[2] = "n" THEN "\n" ELSE IF t[2] = "t" THEN "\t" ELSE t[2]>>
                  \o ResolveEscapes(SubSeq(t, 3, Len(t)))
         ELSE <<t[1]>> \o ResolveEscapes(Tail(t))

\* The value of l once a matching pair of quotes is removed and the
\* escapes are resolved.
DequotedValue(l) ==
    IF WrappedInQuotes(ValueText(l))
    THEN ResolveEscapes(SubSeq(ValueText(l), 2, Len(ValueText(l)) - 1))
    ELSE ValueText(l)

IsFlowText(v) ==
    /\ v # <<>>
    /\ \/ v[1] = "[" /\ v[Len(v)] = "]"
       \/ v[1] = "{" /\ v[Len(v)] = "}"

\* l reads "key: value" where value is a plain or quoted scalar.
IsScalarEntry(l) ==
    /\ IsEntryLine(l)
    /\ ValueText(l) # <<>>
    /\ ValueText(l)[1] \notin {"|", ">"}
    /\ WrappedInQuotes(ValueText(l)) \/ ~HasColonSpace(ValueText(l))
    /\ WrappedInQuotes(ValueText(l))
          => KnownEscapesOnly(SubSeq(ValueText(l), 2, Len(ValueText(l)) - 1))
    /\ ~IsFlowText(Strip(DequotedValue(l)))

\* A Plain Scalar node with the given text and no children.
PlainScalar(text) ==
    [type |-> "Scalar", style |-> "Plain", scalarValue |-> text,
     sequence |-> <<>>, mapping |-> <<>>]

(***************************************************************************)
(* C1.  A scalar entry "key: value" followed by a second scalar entry at   *)
(* the same or a smaller indentation parses without error, and both        *)
(* entries are in the tree.  Stated for the two-line inputs at top level:  *)
(* both keys end up in the root mapping.                                   *)
(***************************************************************************)
C1_SecondEntryAdded ==
    (/\ Finished
     /\ Len(InputLines) = 2
     /\ IsScalarEntry(InputLines[1])
     /\ IsScalarEntry(InputLines[2])
     /\ KeyText(InputLines[2]) # KeyText(InputLines[1])
     /\ LeadingSpaces(InputLines[2]) <= LeadingSpaces(InputLines[1]))
    => (/\ status = "ok"
        /\ root.type = "Mapping"
        /\ {KeyText(InputLines[1]), KeyText(InputLines[2])} \subseteq DOMAIN root.mapping
        /\ root.mapping[KeyText(InputLines[2])].scalarValue
               = Strip(DequotedValue(InputLines[2])))

(***************************************************************************)
(* C2.  Whenever the parse returns a tree, the root of the tree is a       *)
(* Mapping.                                                                *)
(***************************************************************************)
C2_RootIsMapping == status = "ok" => root.type = "Mapping"

(***************************************************************************)
(* C3.  Scalar continuation: when a 'last scalar' target is active and the *)
(* line that is read is not blank, has no colon and does not start a       *)
(* sequence item, the step appends a newline and the trimmed line to the   *)
(* target's text and the parse goes on without an error.                   *)
(***************************************************************************)
ContinuationLine ==
    /\ status = "running"
    /\ ~lastScalarNode.isNull
    /\ Got.ok
    /\ HasText(Got.line)
    /\ ~HasLeadingTab(Got.line)
    /\ Strip(BeforeComment(Got.line))[1] # "-"
    /\ FirstIndex(BeforeComment(Got.line), ":") = 0

C3_ContinuationAppends ==
    [][ContinuationLine =>
          /\ status' = "running"
          /\ NodeAt(root', lastScalarNode.path).scalarValue
               = NodeAt(root, lastScalarNode.path).scalarValue
                    \o <<"\n">> \o Strip(BeforeComment(Got.line))]_vars

(***************************************************************************)
(* C4 as stated.  For a single-line input "key: value" with a scalar       *)
(* value the root is a Mapping with exactly the key KeyText, bound to a    *)
(* Plain Scalar whose text is the trimmed value with one matching pair of  *)
(* quotes removed and the escapes resolved.                                *)
(***************************************************************************)
SingleScalarEntry ==
    /\ Len(InputLines) = 1
    /\ IsScalarEntry(InputLines[1])

C4_DequotedValueStored ==
    (Finished /\ SingleScalarEntry)
    => (/\ status = "ok"
        /\ root.type = "Mapping"
        /\ DOMAIN root.mapping = {KeyText(InputLines[1])}
        /\ root.mapping[KeyText(InputLines[1])]
               = PlainScalar(DequotedValue(InputLines[1])))

(***************************************************************************)
(* C4 as amended.  As C4, but the stored text is the dequoted, unescaped   *)
(* value trimmed of leading and trailing spaces and tabs once more.        *)
(***************************************************************************)
C4_RetrimmedValueStored ==
    (Finished /\ SingleScalarEntry)
    => (/\ status = "ok"
        /\ root.type = "Mapping"
        /\ DOMAIN root.mapping = {KeyText(InputLines[1])}
        /\ root.mapping[KeyText(InputLines[1])]
               = PlainScalar(Strip(DequotedValue(InputLines[1]))))

\* A quoted value with an escape in it has been stored.
C4_Witness ==
    /\ status = "ok"
    /\ SingleScalarEntry
    /\ WrappedInQuotes(ValueText(InputLines[1]))
    /\ FirstIndex(ValueText(InputLines[1]), "\\") # 0
    /\ root.mapping[KeyText(InputLines[1])].type = "Scalar"

(***************************************************************************)
(* C5.  "key:" followed by N >= 1 more-indented lines "- scalar" (scalar   *)
(* without a colon) yields under key a Sequence of exactly the N scalars,  *)
(* Plain, in source order, each the trimmed text after the dash.           *)
(***************************************************************************)
ItemText(l) == Strip(Tail(Strip(l)))

IsScalarItemLine(l) ==
    /\ FirstIndex(l, "#") = 0
    /\ ~HasLeadingTab(l)
    /\ Strip(l) # <<>>
    /\ Strip(l)[1] = "-"
    /\ ItemText(l) # <<>>
    /\ FirstIndex(ItemText(l), ":") = 0

KeyThenScalarItems ==
    /\ Len(InputLines) >= 2
    /\ IsEntryLine(InputLines[1])
    /\ ValueText(InputLines[1]) = <<>>
    /\ \A i \in 2..Len(InputLines) :
          /\ IsScalarItemLine(InputLines[i])
          /\ LeadingSpaces(InputLines[i]) > LeadingSpaces(InputLines[1])

C5_SequenceInSourceOrder ==
    (Finished /\ KeyThenScalarItems)
    => (/\ status = "ok"
        /\ KeyText(InputLines[1]) \in DOMAIN root.mapping
        /\ root.mapping[KeyText(InputLines[1])].type = "Sequence"
        /\ root.mapping[KeyText(InputLines[1])].sequence
               = [i \in 1..(Len(InputLines) - 1) |->
                      PlainScalar(ItemText(InputLines[i + 1]))])

\* A sequence of at least two different items has been built.
C5_Witness ==
    /\ status = "ok"
    /\ KeyThenScalarItems
    /\ Len(InputLines) >= 3
    /\ ItemText(InputLines[2]) # ItemText(InputLines[3])
    /\ Len(root.mapping[KeyText(InputLines[1])].sequence) = Len(InputLines) - 1

(***************************************************************************)
(* C6 as stated.  For an entry with a non-empty value that is not a block  *)
(* scalar header: an unquoted value containing ": " aborts the parse; a    *)
(* value wrapped in matching quotes parses, to a scalar that keeps every   *)
(* colon of the quoted text.                                               *)
(***************************************************************************)
ColonCount(t) == Cardinality({i \in 1..Len(t) : t[i] = ":"})

SingleInlineEntry ==
    /\ Len(InputLines) = 1
    /\ IsEntryLine(InputLines[1])
    /\ ValueText(InputLines[1]) # <<>>
    /\ ValueText(InputLines[1])[1] \notin {"|", ">"}

UnquotedColonRejected ==
    (~WrappedInQuotes(ValueText(InputLines[1])) /\ HasColonSpace(ValueText(InputLines[1])))
    => status = "error"

QuotedColonKept ==
    /\ status = "ok"
    /\ KeyText(InputLines[1]) \in DOMAIN root.mapping
    /\ root.mapping[KeyText(InputLines[1])].type = "Scalar"
    /\ ColonCount(root.mapping[KeyText(InputLines[1])].scalarValue)
           = ColonCount(ValueText(InputLines[1]))

TabIndentedLines ==
    {i \in 1..Len(InputLines) :
        HasText(InputLines[i]) /\ HasLeadingTab(InputLines[i])}

C7_TabInIndentAborts ==
    (Finished /\ TabIndentedLines # {})
    => LET k == SetMin(TabIndentedLines)
       IN  /\ status = "error"
           /\ err.line <= k
           /\ err.line = k =>
                 /\ err.kind = "Tabs"
                 /\ err.col = LeadingSpaces(InputLines[k]) + 1

\* The tab error has been raised on a later line, for a tab after a space.
C7_Witness ==
    /\ status = "error"
    /\ err.kind = "Tabs"
    /\ err.line > 1
    /\ err.line \in TabIndentedLines
    /\ err.col = 2

(***************************************************************************)
(* C8.  A non-blank line that does not start with "-" is rejected when it  *)
(* has no colon and no 'last scalar' target is active, and when the text   *)
(* before its first colon is empty after trimming; the step leaves the     *)
(* tree as it was.                                                         *)
(***************************************************************************)
MalformedMappingLine ==
    /\ status = "running"
    /\ Got.ok
    /\ LET t == Strip(BeforeComment(Got.line))
       IN  /\ t # <<>>
           /\ t[1] # "-"
           /\ \/ FirstIndex(t, ":") = 0 /\ lastScalarNode.isNull
              \/ FirstIndex(t, ":") # 0 /\ KeyText(t) = <<>>

C8_MalformedLineRejected ==
    [][MalformedMappingLine => (status' = "error" /\ root' = root)]_vars

\* A line without a colon, or with an empty key, was rejected after the
\* tree had received an entry.
C8_Witness ==
    /\ status = "error"
    /\ err.kind \in {"MissingColon", "EmptyKey"}
    /\ err.line > 1
    /\ root.mapping # <<>>

(***************************************************************************)
(* C9.  The line field of every error is the 1-based number of the         *)
(* physical line the error was raised on: the line that ends at the read   *)
(* position of the stream.                                                 *)
(***************************************************************************)
C9_ErrorLineIsPhysicalLine ==
    status = "error" => err.line = PhysicalLine(stream.pos)

(***************************************************************************)
(* C10.  A non-blank line that is indented more than the scalar mapping    *)
(* entry right before it aborts the parse, with or without a colon, and    *)
(* is not attached to any node.                                            *)
(***************************************************************************)
\* The number of the last non-blank physical line at or before line n.
LastContentLine(n) ==
    LET some == {j \in 1..n : HasText(InputLines[j])}
    IN  IF some = {} THEN 0 ELSE SetMax(some)

\* Line n is non-blank and indented more than a scalar entry before it.
DeeperThanScalarEntry(n) ==
    /\ n \in 2..Len(InputLines)
    /\ HasText(InputLines[n])
    /\ LastContentLine(n - 1) # 0
    /\ IsScalarEntry(InputLines[LastContentLine(n - 1)])
    /\ LeadingSpaces(InputLines[n]) > LeadingSpaces(InputLines[LastContentLine(n - 1)])

DeeperLineAfterScalar ==
    /\ status = "running"
    /\ ~lastScalarNode.isNull
    /\ Got.ok
    /\ DeeperThanScalarEntry(PhysicalLine(Got.st.pos))

C10_DeeperLineRejected ==
    [][DeeperLineAfterScalar => (status' = "error" /\ root' = root)]_vars

\* A deeper "key: value" line after a scalar entry was rejected.
C10_Witness ==
    /\ status = "error"
    /\ err.kind = "UnexpectedIndent"
    /\ DeeperThanScalarEntry(err.line)
    /\ FirstIndex(InputLines[err.line], ":") # 0

(***************************************************************************)
(* Vocabulary of the block scalar properties: the header on the first      *)
(* line of the input and the lines after it.                               *)
(***************************************************************************)
HeaderKey == KeyText(InputLines[1])

\* The first line reads "key: <ind><chomp>"; chomp is <<>> for clip.
BlockHeader(ind, chomp) ==
    /\ Len(InputLines) >= 1
    /\ IsEntryLine(InputLines[1])
    /\ ValueText(InputLines[1]) = <<ind>> \o chomp

BodyIndices == 2..Len(InputLines)

\* l without its leading spaces.
Unindent(l) == SubSeq(l, LeadingSpaces(l) + 1, Len(l))

\* l with its trailing spaces and tabs removed.
RECURSIVE StripRight(_)
StripRight(t) ==
    IF t # <<>> /\ IsBlankChar(t[Len(t)])
    THEN StripRight(SubSeq(t, 1, Len(t) - 1))
    ELSE t

\* Line i holds characters other than spaces, deeper than the header line.
IsBlockContent(i) ==
    /\ Strip(InputLines[i]) # <<>>
    /\ ~HasLeadingTab(InputLines[i])
    /\ LeadingSpaces(InputLines[i]) > LeadingSpaces(InputLines[1])

IsEmptyLine(i) == Strip(InputLines[i]) = <<>> /\ ~HasLeadingTab(InputLines[i])

BlockContentIndices == {i \in BodyIndices : IsBlockContent(i)}

\* Every line after the header is a content line or an empty line, and
\* there is a content line.
BlockBodyOnly ==
    /\ BlockContentIndices # {}
    /\ \A i \in BodyIndices : IsBlockContent(i) \/ IsEmptyLine(i)

SameIndentation ==
    \A i, j \in BlockContentIndices :
        LeadingSpaces(InputLines[i]) = LeadingSpaces(InputLines[j])

NoCommentInBody == \A i \in BodyIndices : FirstIndex(InputLines[i], "#") = 0

\* The number of newlines t ends with.
RECURSIVE TrailingNewlines(_)
TrailingNewlines(t) ==
    IF t # <<>> /\ t[Len(t)] = "\n"
    THEN 1 + TrailingNewlines(SubSeq(t, 1, Len(t) - 1))
    ELSE 0

WithoutTrailingNewlines(t) == SubSeq(t, 1, Len(t) - TrailingNewlines(t))

\* A scalar node of the given style and text.
StyledScalar(style, text) ==
    [type |-> "Scalar", style |-> style, scalarValue |-> text,
     sequence |-> <<>>, mapping |-> <<>>]

\* The parse returned a tree whose root maps the header's key to a scalar.
BlockStored ==
    /\ status = "ok"
    /\ root.type = "Mapping"
    /\ HeaderKey \in DOMAIN root.mapping
    /\ root.mapping[HeaderKey].type = "Scalar"

StoredText == root.mapping[HeaderKey].scalarValue

(***************************************************************************)
(* C11.  A literal block "key: |" followed by content lines that all have  *)
(* the same indentation, deeper than the header, and by empty lines: the   *)
(* stored scalar has style Literal and its text is the lines from the      *)
(* first to the last content line, each without its indentation and        *)
(* followed by a newline, whatever characters the lines contain.           *)
(***************************************************************************)
\* Lines i..j of the input without their indentation, a newline after each.
RECURSIVE UnindentedLines(_, _)
UnindentedLines(i, j) ==
    IF i > j THEN <<>>
    ELSE Unindent(InputLines[i]) \o <<"\n">> \o UnindentedLines(i + 1, j)

C11_LiteralKeepsLines ==
    (Finished /\ BlockHeader("|", <<>>) /\ BlockBodyOnly /\ SameIndentation)
    => (/\ BlockStored
        /\ root.mapping[HeaderKey]
             = StyledScalar("Literal",
                   UnindentedLines(SetMin(BlockContentIndices),
                                   SetMax(BlockContentIndices))))

(***************************************************************************)
(* C12.  The extractor strips only the indentation common to the content   *)
(* lines of the block: in a literal block without comments a content line  *)
(* indented k spaces deeper than the least-indented content line keeps k   *)
(* leading spaces in the stored text.                                      *)
(***************************************************************************)
CommonIndent == SetMin({LeadingSpaces(InputLines[i]) : i \in BlockContentIndices})

\* Lines i..j of the input without the common indentation, a newline after
\* each; an empty line has no text.
RECURSIVE CommonUnindentedLines(_, _)
CommonUnindentedLines(i, j) ==
    IF i > j THEN <<>>
    ELSE (IF IsBlockContent(i)
          THEN SubSeq(InputLines[i], CommonIndent + 1, Len(InputLines[i]))
          ELSE <<>>)
         \o <<"\n">> \o CommonUnindentedLines(i + 1, j)

C12_CommonIndentStripped ==
    (Finished /\ BlockHeader("|", <<>>) /\ BlockBodyOnly /\ NoCommentInBody)
    => (/\ BlockStored
        /\ StoredText = CommonUnindentedLines(SetMin(BlockContentIndices),
                                              SetMax(BlockContentIndices)))

(***************************************************************************)
(* C13.  A block scalar, literal or folded, with at least one content line *)
(* (a line with text before any "#") and any number of empty lines: with   *)
(* the chomp indicator "-" the stored text does not end with a newline;    *)
(* without a chomp indicator it ends with exactly one newline.             *)
(***************************************************************************)
StripHeader == BlockHeader("|", <<"-">>) \/ BlockHeader(">", <<"-">>)
ClipHeader == BlockHeader("|", <<>>) \/ BlockHeader(">", <<>>)

\* The number of empty lines after the last content line.
TrailingEmptyLines == Len(InputLines) - SetMax(BlockContentIndices)

\* Every content line has text before its first "#".
ContentBeforeComment == \A i \in BlockContentIndices : HasText(InputLines[i])

KeepHeader == BlockHeader("|", <<"+">>) \/ BlockHeader(">", <<"+">>)

C14_KeepChomp ==
    (Finished /\ KeepHeader /\ BlockBodyOnly /\ ContentBeforeComment)
    => (/\ BlockStored
        /\ TrailingNewlines(StoredText) = 1 + TrailingEmptyLines)

(***************************************************************************)
(* C15.  Folding of a ">" block whose content lines have the same          *)
(* indentation and no comment: every line is right-trimmed, two content    *)
(* lines that follow each other are joined by one space, and two content   *)
(* lines with empty lines between them are separated by the newline of the *)
(* first line and one newline for each empty line (one empty line gives    *)
(* two newlines).  The chomp only decides the newlines at the end.         *)
(***************************************************************************)
FoldedHeader == BlockHeader(">", <<>>) \/ BlockHeader(">", <<"-">>)

Newlines(n) == [i \in 1..n |-> "\n"]

\* The folded text of the content lines from line i on; prev is the
\* content line before them.
RECURSIVE FoldedFrom(_, _)
FoldedFrom(prev, i) ==
    IF i > SetMax(BlockContentIndices) THEN <<>>
    ELSE IF ~IsBlockContent(i) THEN FoldedFrom(prev, i + 1)
    ELSE (IF prev = 0 THEN <<>>
          ELSE IF i = prev + 1 THEN <<" ">>
          ELSE Newlines(i - prev))
         \o StripRight(Unindent(InputLines[i]))
         \o FoldedFrom(i, i + 1)

C15_FoldKeepsParagraphs ==
    (Finished /\ FoldedHeader /\ BlockBodyOnly /\ SameIndentation /\ NoCommentInBody)
    => (/\ BlockStored
        /\ root.mapping[HeaderKey].style = "Folded"
        /\ WithoutTrailingNewlines(StoredText) = FoldedFrom(0, 2))

(***************************************************************************)
(* C16 as stated.  When the first non-blank line after a block scalar      *)
(* header "key: |" or "key: >" is not indented more than the header, the   *)
(* parse fails, whatever the line contains.                                *)
(***************************************************************************)
AnyBlockHeader ==
    \E ind \in {"|", ">"} : \E chomp \in {<<>>, <<"-">>, <<"+">>} :
        BlockHeader(ind, chomp)

\* The first line after the header that is not blank once its comment is
\* removed; 0 when there is none.
FirstBodyLine ==
    LET some == {i \in BodyIndices : HasText(InputLines[i])}
    IN  IF some = {} THEN 0 ELSE SetMin(some)

\* The block has no content: the first line with text after the header is
\* not deeper than the header.
ShallowFirstLine ==
    /\ AnyBlockHeader
    /\ FirstBodyLine # 0
    /\ \A i \in 2..FirstBodyLine : ~HasLeadingTab(InputLines[i])
    /\ LeadingSpaces(InputLines[FirstBodyLine]) <= LeadingSpaces(InputLines[1])

ShallowLineWithoutColon ==
    /\ ShallowFirstLine
    /\ FirstIndex(InputLines[FirstBodyLine], "#") = 0
    /\ FirstIndex(InputLines[FirstBodyLine], ":") = 0
    /\ Strip(InputLines[FirstBodyLine])[1] # "-"

ShallowLastEntry ==
    /\ ShallowFirstLine
    /\ FirstBodyLine = Len(InputLines)
    /\ IsScalarEntry(InputLines[FirstBodyLine])
    /\ KeyText(InputLines[FirstBodyLine]) # HeaderKey

RECURSIVE Pieces(_)
Pieces(t) ==
    IF FirstIndex(t, ",") = 0 THEN <<t>>
    ELSE <<SubSeq(t, 1, FirstIndex(t, ",") - 1)>>
             \o Pieces(SubSeq(t, FirstIndex(t, ",") + 1, Len(t)))

\* v without its first and its last character.
Inner(v) == SubSeq(v, 2, Len(v) - 1)

\* A piece with one matching pair of quotes removed and the escapes
\* resolved.
Dequoted(v) == IF WrappedInQuotes(v) THEN ResolveEscapes(Inner(v)) ELSE v

EscapesKnown(v) == WrappedInQuotes(v) => KnownEscapesOnly(Inner(v))

\* The single line of the input is an entry whose value is open ... close.
SingleFlowEntry(open, close) ==
    /\ SingleInlineEntry
    /\ Len(ValueText(InputLines[1])) >= 2
    /\ ValueText(InputLines[1])[1] = open
    /\ ValueText(InputLines[1])[Len(ValueText(InputLines[1]))] = close

FlowPieces == Pieces(Inner(ValueText(InputLines[1])))

(***************************************************************************)
(* C17 as stated.  An entry whose value is [i1, i2, ...] yields a Sequence *)
(* whose items are, in order, the pieces between the commas that are not   *)
(* empty after trimming, each a Plain Scalar with one matching pair of     *)
(* quotes removed and its escapes resolved.                                *)
(***************************************************************************)
RECURSIVE FlowItems(_)
FlowItems(pieces) ==
    IF pieces = <<>> THEN <<>>
    ELSE (IF Strip(Head(pieces)) = <<>> THEN <<>>
          ELSE <<PlainScalar(Dequoted(Strip(Head(pieces))))>>)
         \o FlowItems(Tail(pieces))

FlowSequenceStored ==
    /\ status = "ok"
    /\ root.type = "Mapping"
    /\ DOMAIN root.mapping = {KeyText(InputLines[1])}
    /\ root.mapping[KeyText(InputLines[1])]
           = [type |-> "Sequence", style |-> "Plain", scalarValue |-> <<>>,
              sequence |-> FlowItems(FlowPieces), mapping |-> <<>>]

FlowSequenceEntry ==
    /\ SingleFlowEntry("[", "]")
    /\ \A i \in 1..Len(FlowPieces) : EscapesKnown(Strip(FlowPieces[i]))

IsFlowPair(p) ==
    /\ FirstIndex(p, ":") # 0
    /\ FirstIndex(p, ":") < Len(p)
    /\ p[FirstIndex(p, ":") + 1] = " "
    /\ KeyText(p) # <<>>
    /\ EscapesKnown(ValueText(p))

FlowMappingEntry ==
    /\ SingleFlowEntry("{", "}")
    /\ \A i \in 1..Len(FlowPieces) : IsFlowPair(FlowPieces[i])
    /\ \A i, j \in 1..Len(FlowPieces) :
          i # j => KeyText(FlowPieces[i]) # KeyText(FlowPieces[j])

C18_FlowMappingParsed ==
    (Finished /\ FlowMappingEntry)
    => (/\ status = "ok"
        /\ KeyText(InputLines[1]) \in DOMAIN root.mapping
        /\ LET node == root.mapping[KeyText(InputLines[1])]
           IN  /\ node.type = "Mapping"
               /\ DOMAIN node.mapping
                      = {KeyText(FlowPieces[i]) : i \in 1..Len(FlowPieces)}
               /\ \A i \in 1..Len(FlowPieces) :
                      node.mapping[KeyText(FlowPieces[i])]
                          = PlainScalar(Dequoted(ValueText(FlowPieces[i]))))


(***************************************************************************)
(* Vocabulary of the claims about the Scalar Classifier and the typed      *)
(* accessors: the node and the text of the last call, and the classes of   *)
(* texts that the contract names.                                          *)
(***************************************************************************)
Classified == result.fn = "deduceType"
Accessed == result.fn \in {"toBool", "toInt", "toDouble"}
CalledNode == NodeAt(root, result.path)
CalledText == CalledNode.scalarValue

RECURSIVE AfterSpaces(_)
AfterSpaces(t) ==
    IF t # <<>> /\ Head(t) \in SpaceChars THEN AfterSpaces(Tail(t)) ELSE t

Negative(t) == t # <<>> /\ Head(t) = "-"
Unsigned(t) == IF t # <<>> /\ Head(t) \in {"+", "-"} THEN Tail(t) ELSE t

RECURSIVE WithoutLeadingZeros(_)
WithoutLeadingZeros(t) ==
    IF Len(t) > 1 /\ Head(t) = "0" THEN WithoutLeadingZeros(Tail(t)) ELSE t

\* a < b for two runs of decimal digits of the same length
RECURSIVE DigitsBelow(_, _)
DigitsBelow(a, b) ==
    /\ a # <<>>
    /\ \/ digitValue(Head(a)) < digitValue(Head(b))
       \/ Head(a) = Head(b) /\ DigitsBelow(Tail(a), Tail(b))

\* the magnitude m with the sign neg is a 64-bit signed integer
InLongRange(neg, m) ==
    \E lim \in {IF neg THEN LONG_MIN ELSE LONG_MAX} :
        \/ Len(m) < Len(lim)
        \/ Len(m) = Len(lim) /\ (m = lim \/ DigitsBelow(m, lim))

\* whitespace, an optional sign and decimal digits up to the end of the
\* text, with a value that a long holds
IntegerText(t) ==
    \E u \in {AfterSpaces(t)} : \E d \in {Unsigned(u)} :
        /\ d # <<>>
        /\ \A i \in 1..Len(d) : d[i] \in DecDigits
        /\ InLongRange(Negative(u), WithoutLeadingZeros(d))

IntegerValue(t) ==
    One({[neg |-> Negative(u) /\ m # <<"0">>, mag |-> m] :
            u \in {AfterSpaces(t)},
            m \in {WithoutLeadingZeros(Unsigned(AfterSpaces(t)))}})

\* whitespace, an optional sign and a floating-point number up to the end
\* of the text, with a value that a double holds
FloatText(t) ==
    \E d \in {Unsigned(AfterSpaces(t))} : isSubject(d) /\ ~outOfRange(d)

LowerCase(t) == [i \in 1..Len(t) |-> tolower(t[i])]
TrueWords == {<<"y", "e", "s">>, <<"t", "r", "u", "e">>, <<"o", "n">>}
FalseWords == {<<"n", "o">>, <<"f", "a", "l", "s", "e">>, <<"o", "f", "f">>}
NullWords == {<<"n", "u", "l", "l">>, <<"~">>, <<>>}
TrueWord(t) == LowerCase(t) \in TrueWords
FalseWord(t) == LowerCase(t) \in FalseWords
NullWord(t) == LowerCase(t) \in NullWords

\* The variant that the fixed precedence gives the text t.
ByPrecedence(t) ==
    IF IntegerText(t) THEN LongOf(IntegerValue(t))
    ELSE IF FloatText(t) THEN DoubleOf(t)
    ELSE IF TrueWord(t) THEN BoolOf(TRUE)
    ELSE IF FalseWord(t) THEN BoolOf(FALSE)
    ELSE IF NullWord(t) THEN Monostate
    ELSE StringOf(t)

\* C19: deduceType returns, for every scalar text of a parsed tree, the
\* one variant of the first rule that matches in the order integer,
\* double, boolean, absent value, string: an integer text is never a double
\* and no text is left without a variant.
C19_FixedPrecedence ==
    Classified =>
        /\ result.ret.kind \in {"long", "double", "bool", "monostate", "string"}
        /\ \E t \in {CalledText} : result.ret = ByPrecedence(t)

\* deduceType was called on a text that is an integer and a floating-point
\* number at once and returned the integer.
C19_Witness ==
    /\ Classified
    /\ IntegerText(CalledText)
    /\ FloatText(CalledText)
    /\ result.ret.kind = "long"

\* The variant that an accessor returns when it agrees with the
\* classifier: the classifier's value of that variant, else no value.
Agreeing(kind, n) ==
    IF ~isScalar(n) \/ NullWord(n.scalarValue) THEN Nullopt
    ELSE One({IF c.kind = kind THEN c ELSE Nullopt :
                c \in {deduceType(n.scalarValue)}})

\* C20: toInt returns a value exactly when deduceType classifies the text
\* of the node as an integer, and then the same value; toBool returns a
\* value exactly when deduceType classifies it as a boolean; toBool, toInt
\* and toDouble return no value for a node that is not a scalar and for
\* the texts null (in any case), ~ and the empty text.
C20_AccessorsAgree ==
    Accessed =>
        \E n \in {CalledNode} :
            /\ result.fn = "toInt" => result.ret = Agreeing("long", n)
            /\ result.fn = "toBool" => result.ret = Agreeing("bool", n)
            /\ ~isScalar(n) \/ NullWord(n.scalarValue) => result.ret = Nullopt


(***************************************************************************)
(* Vocabulary of the properties of single steps of the stack machine: the  *)
(* line at the read position and the physical line after it.               *)
(***************************************************************************)
HasChildren(n) == n.sequence # <<>> \/ DOMAIN n.mapping # {}

\* The text from the read position on, the line that starts there and the
\* offset at which the line after it starts.
RestOfInput == SubSeq(input, stream.pos + 1, Len(input))
CurrentLine == PhysicalLines(RestOfInput)[1]
NextLineOffset ==
    IF FirstIndex(RestOfInput, "\n") = 0 THEN Len(input)
    ELSE stream.pos + FirstIndex(RestOfInput, "\n")
HasNextLine == NextLineOffset < Len(input)
PeekedLine == PhysicalLines(SubSeq(input, NextLineOffset + 1, Len(input)))[1]
StartsWithDash(l) == Strip(l) # <<>> /\ Strip(l)[1] = "-"

\* The offset at which the physical line i >= 2 of the input starts.
LineStart(i) ==
    CHOOSE p \in 1..Len(input) :
        input[p] = "\n" /\ Cardinality({j \in 1..p : input[j] = "\n"}) = i - 1

\* C25: a step of the parse changes the kind of a node of the tree only
\* when that node has no sequence item and no mapping entry, so that no
\* attached child is discarded or hidden by a change of kind.
C25_KindChangeOnlyWhenEmpty ==
    [][\A p \in NodePaths(root) :
          (p \in NodePaths(root') /\ NodeAt(root', p).type # NodeAt(root, p).type)
              => ~HasChildren(NodeAt(root, p))]_vars

\* The line that ends the block scalar of a header on the first line: the
\* first line with text that is not indented more than the header; 0 when
\* there is none.
Terminator ==
    LET shallow == {i \in BodyIndices :
                       /\ HasText(InputLines[i])
                       /\ LeadingSpaces(InputLines[i]) <= LeadingSpaces(InputLines[1])}
    IN  IF shallow = {} THEN 0 ELSE SetMin(shallow)

\* The step that reads a block scalar header on the first line of the
\* input and the block after it.
BlockScalarStep ==
    /\ stream.pos = 0
    /\ linecount = 0
    /\ status = "running"
    /\ AnyBlockHeader
    /\ Terminator # 0

\* C26: the step that reads a block scalar ended by a line with text that
\* is not indented more than the header leaves the read position at the
\* start of that physical line and the line counter at the line before
\* it, so that the line is read again in full.
C26_TerminatorNotConsumed ==
    [][(BlockScalarStep /\ status' = "running") =>
          /\ stream'.pos = LineStart(Terminator)
          /\ ~stream'.fail
          /\ linecount' = Terminator - 1]_vars

\* The line at the read position is "key:" with nothing after the colon.
EmptyValueLine == KeyedLine /\ value = <<>>

\* C27: the step on a line "key:" puts under the key a node without
\* children that is a Sequence when the next physical line starts with "-"
\* after its indentation and a Mapping otherwise (also when there is no
\* next line), pushes the frame (child, indent of the line), clears the
\* last scalar and leaves the read position at the start of the next line.
C27_EmptyValuePeeks ==
    [][EmptyValueLine =>
          /\ status' = "running"
          /\ \E child \in {currentNode \o <<KeyStep(key)>>} :
                /\ NodeAt(root', child) =
                       YamlNode(IF HasNextLine /\ StartsWithDash(PeekedLine)
                                THEN "Sequence" ELSE "Mapping")
                /\ stack'[Len(stack')] = Frame(child, LeadingSpaces(CurrentLine))
          /\ lastScalarNode' = NullPtr
          /\ HasNextLine =>
                /\ stream'.pos = NextLineOffset
                /\ ~stream'.fail
                /\ ~stream'.eof]_vars

\* The line at the read position is "- key: value" with a key.
InlineKeyItemLine ==
    /\ Accepted
    /\ content[1] = "-"
    /\ FirstIndex(content, ":") # 0
    /\ Strip(SubSeq(content, 2, FirstIndex(content, ":") - 1)) # <<>>

\* The Mapping with the one entry of the line l = "- key: value".
InlineKeyItem(l) ==
    [YamlNode("Mapping") EXCEPT !.mapping =
        mapPut(EmptyMap,
               Strip(SubSeq(Strip(l), 2, FirstIndex(Strip(l), ":") - 1)),
               ScalarNode(Strip(SubSeq(Strip(l), FirstIndex(Strip(l), ":") + 1,
                                       Len(Strip(l))))))]

\* The first line of the input is "- key: value" and has no comment.
FirstLineIsInlineKeyItem ==
    /\ Len(InputLines) >= 1
    /\ FirstIndex(InputLines[1], "#") = 0
    /\ ~HasLeadingTab(InputLines[1])
    /\ StartsWithDash(InputLines[1])
    /\ FirstIndex(Strip(InputLines[1]), ":") # 0
    /\ Strip(SubSeq(Strip(InputLines[1]), 2,
                    FirstIndex(Strip(InputLines[1]), ":") - 1)) # <<>>

\* C28: the step on a line "- key: value" appends to the current Sequence
\* one Mapping that holds that one key and pushes no frame; and the item
\* of such a first line is a Mapping with that one key in the tree that the
\* parse returns.
C28_InlineKeyItemStays ==
    /\ [][InlineKeyItemLine =>
             \E item \in {InlineKeyItem(CurrentLine)} :
                 /\ NodeAt(root', currentNode).type = "Sequence"
                 /\ NodeAt(root', currentNode).sequence =
                        Append(IF NodeAt(root, currentNode).type = "Sequence"
                               THEN NodeAt(root, currentNode).sequence ELSE <<>>,
                               item)
                 /\ Len(stack') <= Len(stack)
                 /\ stack' = SubSeq(stack, 1, Len(stack'))]_vars
    /\ []((status = "ok" /\ FirstLineIsInlineKeyItem) =>
             /\ root.type = "Sequence"
             /\ root.sequence # <<>>
             /\ root.sequence[1] = InlineKeyItem(InputLines[1]))

\* C30: the frame stack is never empty, its bottom frame is (root, -1) and
\* the indents of its frames increase strictly from bottom to top; the
\* error for an empty stack is never raised.
C30_StackWellFormed ==
    /\ stack # <<>>
    /\ stack[1] = Frame(<<>>, -1)
    /\ \A i \in 1..(Len(stack) - 1) : stack[i].indent < stack[i + 1].indent
    /\ err.kind # "InvalidStructure"

\* Two frames were pushed on the bottom frame, and a line was read after.
C30_Witness ==
    /\ Len(stack) >= 3
    /\ linecount >= 3


(***************************************************************************)
(* The parse as a process that keeps running: the line loop takes its next *)
(* iteration as long as one is possible.  The documents mix the lines that *)
(* seek the cursor backwards (an empty-valued key, a block scalar header   *)
(* and the lines that end its block) with every other outcome of a line.   *)
(***************************************************************************)
LiveLines ==
    {<<"k", ":">>,
     <<"k", ":", " ", "|">>,
     <<" ", " ", "x">>,
     <<"a", ":", " ", "x", " ", "#", " ", "c">>,
     <<" ", " ", "-", " ", "a">>}

\* lines that end the parse with an error of their own
LiveErrorLines ==
    {<<"\t", "v">>,
     <<":", " ", "v">>}

LiveInputs ==
    {Text(ls, nl) : ls \in SeqsUpTo(LiveLines, MaxLines), nl \in BOOLEAN}
    \cup
    {Text(<<l, e>>, TRUE) : l \in LiveLines, e \in LiveErrorLines}

LiveInit == parseStreamEntry(LiveInputs)

LiveSpec == LiveInit /\ [][Next]_vars /\ WF_vars(Next)

\* C29: every iteration of the line loop that does not end the parse
\* leaves the read position further in the text than it found it, also
\* when the peek or the block scalar extractor has sought backwards, and
\* the parse ends, with a tree or with an error.
C29_ParseTerminates ==
    /\ [][(status = "running" /\ status' = "running") =>
             stream'.pos > stream.pos]_vars
    /\ <>(status # "running")

\* A parse ended after the line that ends a block scalar was read again.
C29_Witness ==
    /\ status = "ok"
    /\ AnyBlockHeader
    /\ Terminator # 0
    /\ linecount >= Terminator


(***************************************************************************)
(* Vocabulary of the properties of the query layer: the call a client made *)
(* and the node of the tree it was made on.                                *)
(***************************************************************************)
Self == query.self
SelfNode == NodeAt(root, Self.path)
EmptyView == NullPtr
ViewOf(p) == Ptr(p)

\* the child stored under name in the node of the view, or the empty view
ChildByKey(view, name) ==
    IF view.isNull THEN EmptyView
    ELSE IF NodeAt(root, view.path).type # "Mapping" THEN EmptyView
    ELSE IF name \notin DOMAIN NodeAt(root, view.path).mapping THEN EmptyView
    ELSE ViewOf(Append(view.path, KeyStep(name)))

\* the i-th item (from 0) of the node of the view, or the empty view
ItemByIndex(view, i) ==
    IF view.isNull THEN EmptyView
    ELSE IF NodeAt(root, view.path).type # "Sequence" THEN EmptyView
    ELSE IF i >= Len(NodeAt(root, view.path).sequence) THEN EmptyView
    ELSE ViewOf(Append(view.path, IdxStep(i + 1)))

\* C21: operator[](key) returns the empty view when the view is empty,
\* its node is not a Mapping or the key is absent, and the view of the
\* stored child otherwise; operator[](idx) returns the empty view when the
\* view is empty, its node is not a Sequence or idx >= size, and the view
\* of the idx-th item otherwise.
C21_IndexingNeverFails ==
    /\ query.fn = "operator[](key)" => query.ret = ChildByKey(Self, query.arg)
    /\ query.fn = "operator[](idx)" => query.ret = ItemByIndex(Self, query.arg[4])

\* The second item of a sequence was asked for and returned.
C21_Witness ==
    /\ query.fn = "operator[](idx)"
    /\ query.arg = SizeT(1)
    /\ ~query.ret.isNull


\* The path text of an at_path or value call.
PathText == IF query.fn = "value" THEN query.arg.path ELSE query.arg

\* Dot-separated segments, each a key followed by index steps: the text
\* starts with a key, a dot is followed by a key, and what follows a `]`
\* is another index step, a dot or the end of the text.
IsPath(t) ==
    /\ t # <<>>
    /\ t[1] \notin {".", "["}
    /\ t[Len(t)] # "."
    /\ \A i \in 1..(Len(t) - 1) :
          /\ t[i] = "." => t[i + 1] \notin {".", "["}
          /\ t[i] = "]" => t[i + 1] \in {".", "["}

\* the number of characters of t before the first one of stops
RECURSIVE LengthBefore(_, _)
LengthBefore(t, stops) ==
    IF t = <<>> \/ Head(t) \in stops THEN 0
    ELSE 1 + LengthBefore(Tail(t), stops)

\* the item of the view at the index written with the decimal digits ds
ItemByDigits(view, ds) ==
    IF Len(WithoutLeadingZeros(ds)) > 1 THEN EmptyView
    ELSE ItemByIndex(view, digitValue(WithoutLeadingZeros(ds)[1]))

\* The lookups of the path t applied one after another from view; the
\* empty view as soon as one of them gives the empty view or an index step
\* is not digits closed by `]`.
RECURSIVE Lookups(_, _)
Lookups(view, t) ==
    IF view.isNull THEN EmptyView
    ELSE IF t = <<>> THEN view
    ELSE IF Head(t) = "." THEN Lookups(view, Tail(t))
    ELSE IF Head(t) = "["
    THEN LET ds == SubSeq(t, 2, 1 + LengthBefore(Tail(t), {"]"}))
         IN  IF Len(ds) + 2 > Len(t) THEN EmptyView
             ELSE IF ds = <<>> \/ \E i \in 1..Len(ds) : ds[i] \notin DecDigits
             THEN EmptyView
             ELSE Lookups(ItemByDigits(view, ds), SubSeq(t, Len(ds) + 3, Len(t)))
    ELSE LET name == SubSeq(t, 1, LengthBefore(t, {".", "["}))
         IN  Lookups(ChildByKey(view, name), SubSeq(t, Len(name) + 1, Len(t)))

\* C22: at_path on a path of dot-separated keys and [n] index steps
\* returns the view that the key and index lookups give when applied one
\* after another from the starting view, and the empty view as soon as a
\* step does not resolve: a missing key, a node of the wrong kind, an index
\* out of range, an index step that is not digits closed by `]`.
C22_PathStepByStep ==
    (query.fn = "at_path" /\ IsPath(PathText)) =>
        query.ret = Lookups(Self, PathText)


\* The view the path of a value call resolves to, and its node.
Resolved == at_path(Self, PathText)
ResolvedNode == NodeAt(root, Resolved.path)

INT_MAX == <<"2", "1", "4", "7", "4", "8", "3", "6", "4", "7">>
INT_MIN == <<"2", "1", "4", "7", "4", "8", "3", "6", "4", "8">>

\* the magnitude m with the sign neg is a 32-bit signed integer
InIntRange(neg, m) ==
    \E lim \in {IF neg THEN INT_MIN ELSE INT_MAX} :
        \/ Len(m) < Len(lim)
        \/ Len(m) = Len(lim) /\ (m = lim \/ DigitsBelow(m, lim))

\* what the typed accessor for T gives for the node n
Coerced(T, n) ==
    IF T = "std::string" THEN StringOf(n.scalarValue)
    ELSE IF T = "bool" THEN toBool(n)
    ELSE IF T \in {"int", "long long"} THEN toInt(n)
    ELSE toDouble(n)

\* the node n is a scalar, not a null spelling, with a text that is a T
Coercible(T, n) ==
    /\ n.type = "Scalar"
    /\ ~NullWord(n.scalarValue)
    /\ Coerced(T, n) # Nullopt
    /\ T = "int" => InIntRange(toInt(n).long.neg, toInt(n).long.mag)

\* C23: value<T>(path, def) returns def when the path does not resolve or
\* the resolved node cannot be coerced to T (a node that is not a scalar, a
\* null spelling, a text that is not a T), and the coerced value of the
\* resolved scalar otherwise.
C23_ValueOrDefault ==
    query.fn = "value" =>
        query.ret = IF Resolved.isNull THEN query.arg.def
                    ELSE IF ~Coercible(query.arg.T, ResolvedNode) THEN query.arg.def
                    ELSE Coerced(query.arg.T, ResolvedNode)


\* A typed accessor was called on a view.
TypedAccessorCalled == query.fn \in {"to_bool", "to_int", "to_double"}

\* C24: to_bool, to_int and to_double return on every view a client can
\* hold, and return the absent result on the empty view that a lookup of a
\* missing key, of an index out of range or of an unresolved path gave.
C24_AccessorsNeverFail ==
    TypedAccessorCalled =>
        /\ query.ret # Crashed
        /\ Self.isNull => query.ret = Nullopt


(***************************************************************************)
(* Vocabulary of the properties of the frames: a frame holds a pointer to  *)
(* a node, which stays good while the node stays where it is.              *)
(***************************************************************************)
\* the last step of the path of the node of frame i
FrameStep(i) == stack[i].node[Len(stack[i].node)]

\* The node of frame i is a mapping value or the last sequence item of the
\* node of the frame below it.
RefersToChildOfFrameBelow(i) ==
    /\ stack[i].node \in NodePaths(root)
    /\ Len(stack[i].node) = Len(stack[i - 1].node) + 1
    /\ SubSeq(stack[i].node, 1, Len(stack[i - 1].node)) = stack[i - 1].node
    /\ FrameStep(i).k = "idx" =>
          FrameStep(i).idx = Len(NodeAt(root, stack[i - 1].node).sequence)

\* Frame i is not popped by the line that the step reads: its indent is
\* less than the indent of the line.
FrameOutlivesLine(i) == stack[i].indent < LeadingSpaces(CurrentLine)

\* The node n keeps its kind, its keys and its number of items in m, and
\* every child but the one reached by step is in m as it is in n.
ChildrenKept(n, m, step) ==
    /\ m.type = n.type
    /\ DOMAIN m.mapping = DOMAIN n.mapping
    /\ Len(m.sequence) = Len(n.sequence)
    /\ \A k \in DOMAIN n.mapping :
          step # KeyStep(k) => m.mapping[k] = n.mapping[k]
    /\ \A j \in 1..Len(n.sequence) :
          step # IdxStep(j) => m.sequence[j] = n.sequence[j]

\* C31: each frame above the bottom refers to a node that is a direct
\* child, a mapping value or the last sequence item, of the node of the
\* frame below it; and a step that changes the tree appends, overwrites or
\* clears no child of a container while a frame above the frame of the
\* container refers to one of its children.
C31_FramesReferToLiveChildren ==
    /\ [](\A i \in 2..Len(stack) : RefersToChildOfFrameBelow(i))
    /\ [][root' # root =>
            \A i \in 1..(Len(stack) - 1) :
               FrameOutlivesLine(i + 1) =>
                  ChildrenKept(NodeAt(root, stack[i].node),
                               NodeAt(root', stack[i].node),
                               FrameStep(i + 1))]_vars

\* A line was stored below the frame of a sequence item while the frame of
\* the container of the sequence was on the stack.
C31_Witness ==
    /\ Len(stack) >= 3
    /\ \E i \in 2..Len(stack) : FrameStep(i).k = "idx"
    /\ linecount >= 3


(***************************************************************************)
(* Vocabulary of the properties of the 'last scalar' target.               *)
(***************************************************************************)
\* The target is set: the last line that was not blank stored a scalar
\* that is not a block scalar under its key.
TargetSet == status = "running" /\ ~lastScalarNode.isNull

\* The step reads a line that is not blank after its comment is removed.
TextAfterScalar == TargetSet /\ Got.ok /\ HasText(Got.line)

\* With the target set the parse goes on only over blank and comment-only
\* lines, which leave the tree and the target as they are, and it never
\* reports a missing colon.
OnlyBlankLinesAfterScalar ==
    /\ [][(TargetSet /\ status' # "error") =>
             /\ Got.ok => ~HasText(Got.line)
             /\ root' = root
             /\ status' = "running" => lastScalarNode' = lastScalarNode]_vars
    /\ [][TargetSet => err'.kind # "MissingColon"]_vars
    /\ [](\A i \in 1..Len(InputLines) :
             (/\ status = "ok"
              /\ \A h \in 1..(i - 1) : ~HasText(InputLines[h])
              /\ IsScalarEntry(InputLines[i]))
                => \A j \in (i + 1)..Len(InputLines) : ~HasText(InputLines[j]))

====
